---------------------------- MODULE Spec2Model ----------------------------
(***************************************************************************)
(* AutoCog: the generate / run / diagnose / repair loop of                 *)
(* src/autocog/autocog.py and the command runner it drives.                *)
(*                                                                         *)
(* Twelve specifications share this module:                                *)
(*   SpecRun  one call of run_cog_predict: the child process and the       *)
(*            line-reading loop of the runner, interleaved;                *)
(*   Spec     one execution of the autocog command: project set-up, the    *)
(*            bounded repair loop, and the retries inside diagnose_error,  *)
(*            fix_predict_py and fix_cog_yaml;                             *)
(*   SpecExtract    file_from_gpt_response and the extraction of the       *)
(*            agents, applied to one generated text;                       *)
(*   SpecRoundTrip  save_chat_history followed by load_chat_history;       *)
(*   SpecSession    an AI object under call, save_chat_history and         *)
(*            clear_history;                                               *)
(*   SpecLoad       load_chat_history on a transcript file of any content; *)
(*   SpecReader     save_chat_history, one system call at a time, beside a *)
(*            second object that loads the same file;                      *)
(*   SpecParse      parse_cog_predict_error and the truncation of the      *)
(*            agents, applied to one captured output;                      *)
(*   SpecAgentRun   one call of CogPredictAgent.run_cog_predict beside the *)
(*            child process;                                               *)
(*   SpecRetry      one invocation of a function behind retry(attempts);   *)
(*   SpecCache      calls of order_paths behind cached("paths.pkl"), and   *)
(*            purge_cache;                                                 *)
(*   SpecLive       Spec under weak fairness of its steps.                 *)
(***************************************************************************)
EXTENDS Integers, Sequences, FiniteSets, TLC

(***************************************************************************)
(* Bounds of the model (not program constants).                            *)
(***************************************************************************)
\* longest stderr script a child process writes in SpecRun
MaxLines == 3
\* option -n ranges over -NegAttempts .. MaxAttempts
MaxAttempts == 3
NegAttempts == 2
\* a generated text of SpecExtract is made of at most MaxPieces pieces
MaxPieces == 4
\* SpecRoundTrip: a history has at most MaxTurns turns, the content of a turn
\* at most MaxContentLines lines
MaxTurns == 2
MaxContentLines == 2
\* SpecSession: the history grows to at most MaxHistoryLen turns and at most
\* MaxApiCalls requests are sent to the provider
MaxHistoryLen == 4
MaxApiCalls == 3
\* SpecLoad: a transcript file has at most MaxTranscriptLen lines
MaxTranscriptLen == 4
\* SpecParse: a captured output has at most MaxOutputLen characters and
\* max_length ranges over 1 .. MaxLength
MaxOutputLen == 4
MaxLength == 2
\* SpecRetry: the argument of retry ranges over -NegRetries .. MaxRetries
MaxRetries == 5
NegRetries == 1

(***************************************************************************)
(* Program constants.                                                      *)
(***************************************************************************)
\* signal.SIGKILL: Popen.returncode is -SIGKILL after proc.kill() took effect
SIGKILL == 9
\* len(max_lengths) in generate_files
MaxLengthsLen == 4
\* the last value of the keyword argument "attempt" of diagnose_error,
\* fix_predict_py and fix_cog_yaml
LastInnerAttempt == 5

VARIABLES
    \* ---- run_cog_predict (SpecRun) ----
    script,      \* the stderr lines the child process writes, in order
    exitcode,    \* the exit code the child ends with when it exits on its own
    written,     \* number of lines the child has written to the pipe
    pipe_open,   \* the child still holds the write end of the stderr pipe
    child,       \* "running" | "exited" | "killed"
    rpc,         \* position of the runner: "idle" | "loop" | "kill" | "wait" | "returned"
    nread,       \* number of lines the runner has taken from proc.stderr
    stderr,      \* local variable stderr: the accumulated lines
    echoed,      \* the lines written to sys.stderr (the log sink)
    returncode,  \* proc.returncode (None until the child has been waited for)
    result       \* the first component of the returned pair

runVars == <<script, exitcode, written, pipe_open, child, rpc, nread, stderr,
             echoed, returncode, result>>

VARIABLES
    \* ---- the autocog command (Spec) ----
    openai_api_key,    \* option -k: TRUE when a key was given
    repo,              \* option -r: "" or the path of another directory
    attempts,          \* option -n
    tell,              \* option -t: None or the instruction text
    initialize,        \* option -i
    predict_command,   \* option -p, later the generated command
    disk,              \* disk[dir][filename]: cog.yaml and predict.py of each directory
    cache,             \* <repo_path>/.autocog/cache/paths.pkl: Absent or the stored paths
    files,             \* the dict "files" of autocog(): the in-memory artifact pair
    pc,                \* position in autocog()
    attempt,           \* the loop variable of "for attempt in range(attempts)"
    error_source,      \* the value diagnose_error returned
    inner,             \* the keyword argument "attempt" of the retrying helper that runs
    first_bad,         \* generate_files: the content held by the outermost frame that
                       \* recursed at line 281 without returning the recursive result
    exit_status,       \* exit status of the process, None while it runs
    exc,               \* the exception that ended the process, None if none did
    \* ---- history of the execution (read by the properties only) ----
    n_runs,            \* calls of run_cog_predict
    n_success,         \* calls of run_cog_predict that returned success
    n_diagnose,        \* calls of diagnose_error made by autocog()
    n_branches,        \* repair branches of the dispatch entered
    n_repairs,         \* repair branches completed
    n_requests,        \* call_gpt requests issued by the helper that runs
    cmd_source         \* the predict.py text the predict command was generated from

loopVars == <<openai_api_key, repo, attempts, tell, initialize, predict_command, disk,
              cache, files, pc, attempt, error_source, inner, first_bad, exit_status,
              exc>>

histVars == <<n_runs, n_success, n_diagnose, n_branches, n_repairs, n_requests,
              cmd_source>>

VARIABLES
    \* ---- one extraction of a file from a generated text (SpecExtract) ----
    gpt_response,      \* the argument "content": the generated text
    wanted,            \* the argument "filename": the file asked for
    xpc,               \* "idle" | "autocog" | "agents" | "done"
    extracted,         \* what file_from_gpt_response returned
    agent_extracted    \* what the agents' extraction returned or raised

extractVars == <<gpt_response, wanted, xpc, extracted, agent_extracted>>

VARIABLES
    \* ---- one AI object and its transcript file (SpecSession, SpecRoundTrip) ----
    provider,          \* self.provider
    system_prompt,     \* self.system_prompt, a sequence of lines
    history,           \* self.history, a sequence of turns
    transcript,        \* the file at chat_history_path: Absent or its lines
    apc,               \* "idle" | "ready" | "calling" | "saved" | "loaded"
    messages,          \* the argument of the call that runs
    response,          \* what the last call returned, None if it raised
    n_api,             \* requests sent to the provider
    written_history,   \* the history the last completed save_chat_history wrote
    raised             \* the exception the last operation on the object raised, or None

sessionVars == <<provider, system_prompt, history, transcript, apc, messages, response,
                 n_api, written_history, raised>>

VARIABLES
    \* ---- one extraction of the error from captured output (SpecParse) ----
    raw_output,        \* the captured stderr, a sequence of characters
    max_length,        \* the keyword argument max_length
    ppc,               \* "idle" | "ready" | "parsed" | "done"
    excerpt,           \* what parse_cog_predict_error returned
    truncated          \* what the agents' _truncate_error returned

parseVars == <<raw_output, max_length, ppc, excerpt, truncated>>

VARIABLES
    \* ---- a second object that reads the transcript file (SpecReader) ----
    flushed,           \* lines of the transcript that the writer has written out
    reader_pc,         \* "idle" | "ready" | "loaded"
    seen,              \* the lines f.readlines() gave the reader
    reader_history     \* self.history of the reader after load_chat_history

readerVars == <<flushed, reader_pc, seen, reader_history>>

VARIABLES
    \* ---- one invocation of a function wrapped by retry (SpecRetry) ----
    retry_attempts,    \* the argument "attempts" of retry
    retry_attempt,     \* the loop variable of wrapper_retry
    retry_pc,          \* "idle" | "loop" | "returned" | "raised"
    retry_calls,       \* calls of the wrapped function so far
    retry_last,        \* what the last call of the wrapped function gave
    retry_result       \* what wrapper_retry returned or raised

retryVars == <<retry_attempts, retry_attempt, retry_pc, retry_calls, retry_last,
               retry_result>>

VARIABLES
    \* ---- a function wrapped by cached (SpecCache) ----
    cache_file,        \* cache_file[r]: the stored result for repository r, or Absent
    cache_pc,          \* "idle" | "ready" | "body"
    cache_call,        \* the call that runs: its repository and other argument
    cache_depth,       \* frames of the wrapped function that have not returned
    cache_result,      \* what the last call of the wrapper returned or raised
    cache_computed,    \* cache_computed[r]: results computed since the last purge
    cache_completed    \* cache_completed[r]: frames of the wrapped function that
                       \* returned a result since the last purge

cacheVars == <<cache_file, cache_pc, cache_call, cache_depth, cache_result,
               cache_computed, cache_completed>>

callVars == <<retryVars, cacheVars>>

auxVars == <<extractVars, sessionVars, parseVars, readerVars, callVars>>

vars == <<runVars, loopVars, histVars, auxVars>>

None == "None"

(***************************************************************************)
(* A stderr line is modelled by what the runner tests on it: whether it    *)
(* contains "Model setup failed" and whether it contains                   *)
(* "Traceback (most recent call last)".  Neither marker contains a line    *)
(* break, so the accumulated text contains a marker iff one of its lines   *)
(* does.                                                                   *)
(***************************************************************************)
Lines == [sentinel : BOOLEAN, traceback : BOOLEAN]

ExitCodes == {0, 1}

RECURSIVE SeqsUpTo(_, _)
SeqsUpTo(S, n) ==
    IF n = 0 THEN {<< >>}
    ELSE LET shorter == SeqsUpTo(S, n - 1)
         IN  shorter \cup {Append(s, x) : s \in {t \in shorter : Len(t) = n - 1}, x \in S}

\* "Model setup failed" in line
HasSentinel(line) == line.sentinel

\* "Traceback (most recent call last)" in stderr
HasTraceback(text) == \E i \in 1..Len(text) : text[i].traceback

\* a runner that breaks out of the loop without killing the child
proc_kill_noop(c) == c

\* proc.kill(): Popen.send_signal polls first and signals only a child that
\* has not ended yet; a child that already exited keeps its exit code.
proc_kill(c) == IF c = "running" THEN "killed" ELSE c

\* proc.wait(): the return code of a child that has ended
proc_wait(c, code) == IF c = "killed" THEN 0 - SIGKILL ELSE code

\* the naive success test: the exit code alone
run_result_exit_code_only(rc, text) == rc = 0

\* the success test at the end of run_cog_predict
run_result(rc, text) == rc = 0 /\ ~HasTraceback(text)

(***************************************************************************)
(* Texts.  A text is a sequence of tokens.  A token is a marker of the     *)
(* artifact protocol, a line break, another white-space character, the     *)
(* three backticks of a code fence, a lowercase letter, or a piece of      *)
(* content that is not made of lowercase letters only and has no white     *)
(* space, backtick or marker in it.                                        *)
(***************************************************************************)
Tok(k, v) == [kind |-> k, val |-> v]

COG_YAML == "cog.yaml"
PREDICT_PY == "predict.py"
FileNames == {COG_YAML, PREDICT_PY}

file_start(filename) == Tok("FILE_START", filename)

file_end(filename) == Tok("FILE_END", filename)

\* a marker line that has another character where the file name has its ".",
\* such as "-- FILE_START: cog_yaml"
near_start(filename) == Tok("FILE_START, another character for the dot", filename)

near_end(filename) == Tok("FILE_END, another character for the dot", filename)

\* what the pattern text of a marker matches: the file name is put into the
\* pattern as it is, so its "." stands for any character
start_pattern(filename) == {file_start(filename), near_start(filename)}

end_pattern(filename) == {file_end(filename), near_end(filename)}

\* "\n", a blank or tab, "```", and a character of [a-z]
NL == Tok("nl", "")
WhiteSpace == Tok("ws", "")
Ticks == Tok("ticks", "")
Lower == Tok("lower", "")
Txt(v) == Tok("text", v)

\* the fences as a reply usually has them: "\n```yaml\n" and "\n```\n"
FenceOpen == <<NL, Ticks, Lower, Lower, NL>>
FenceClose == <<NL, Ticks, NL>>

\* Python's None, a file that does not exist, and the empty string
NoneText == <<Tok("None", "")>>
Absent == <<Tok("absent", "")>>
EmptyText == << >>

Contains(text, tok) == \E i \in 1..Len(text) : text[i] = tok

\* index of the first token of text after position from that is in toks, 0 if
\* there is none
FirstAfter(text, toks, from) ==
    IF \E i \in (from + 1)..Len(text) : text[i] \in toks
    THEN CHOOSE i \in (from + 1)..Len(text) :
             /\ text[i] \in toks
             /\ \A j \in (from + 1)..(i - 1) : text[j] \notin toks
    ELSE 0

\* str.strip()
RECURSIVE Strip(_)
Strip(text) ==
    IF text = << >> THEN text
    ELSE IF Head(text) \in {NL, WhiteSpace} THEN Strip(Tail(text))
    ELSE IF text[Len(text)] \in {NL, WhiteSpace}
    THEN Strip(SubSeq(text, 1, Len(text) - 1))
    ELSE text

\* the optional group "(?:\n```[a-z]*\n)?" tried at position p of text: the
\* position after the fence when one starts at p, else p
after_open_fence(text, p) ==
    IF p + 1 <= Len(text) /\ text[p] = NL /\ text[p + 1] = Ticks
    THEN LET others == {i \in (p + 2)..Len(text) : text[i] # Lower}
         IN  IF others = {} THEN p
             ELSE LET k == CHOOSE i \in others : \A j \in others : i <= j
                  IN  IF text[k] = NL THEN k + 1 ELSE p
    ELSE p

\* the optional group "(?:\n```\n)?" in front of the end marker at position e:
\* the position of the fence when one ends right before e and starts at or
\* after p, else e
before_close_fence(text, p, e) ==
    IF e - 3 >= p /\ SubSeq(text, e - 3, e - 1) = <<NL, Ticks, NL>> THEN e - 3 ELSE e

\* file_from_gpt_response: the pattern looks behind for the start marker,
\* takes an opening fence if one follows it at once, then the shortest text
\* that is followed by an optional closing fence and the end marker; the
\* group is stripped.  None when nothing matches.
file_from_gpt_response(content, filename) ==
    LET s == FirstAfter(content, start_pattern(filename), 0)
    IN  IF s = 0 \/ FirstAfter(content, end_pattern(filename), s) = 0
        THEN NoneText
        ELSE LET lo == after_open_fence(content, s + 1)
                 e == FirstAfter(content, end_pattern(filename), lo - 1)
                 hi == before_close_fence(content, lo, e)
             IN  Strip(SubSeq(content, lo, hi - 1))

\* raise ValueError(f"Failed to generate {filename}")
FailedToGenerate(filename) == <<Tok("ValueError: Failed to generate", filename)>>

\* the extraction of the agents (_extract_file_from_gpt_response and
\* _file_from_gpt_response): the same markers, no fence in the pattern, and
\* ValueError when nothing matches
extract_file_from_gpt_response(content, filename) ==
    LET s == FirstAfter(content, start_pattern(filename), 0)
        e == IF s = 0 THEN 0 ELSE FirstAfter(content, end_pattern(filename), s)
    IN  IF e = 0 THEN FailedToGenerate(filename)
        ELSE Strip(SubSeq(content, s + 1, e - 1))

(***************************************************************************)
(* The file system: two directories, the process's working directory and   *)
(* another one that option -r may name.                                    *)
(***************************************************************************)
Dirs == {"cwd", "repo"}

\* repo_path = repo or os.getcwd()
repo_path == IF repo = "" THEN "cwd" ELSE "repo"

\* os.path.exists
Exists(d, dir, filename) == d[dir][filename] # Absent

\* is_initialized(repo_path)
is_initialized(d, rp) == Exists(d, rp, COG_YAML) /\ Exists(d, rp, PREDICT_PY)

\* initialize_project(repo_path), lines 533-538: each artifact is removed if it
\* exists; the purge_cache of line 539 is the caller's second assignment
initialize_project(d, rp) == [d EXCEPT ![rp] = [f \in FileNames |-> Absent]]

\* a re-initialization that leaves the stored paths where they are
purge_cache_skipped(c) == c

\* purge_cache(repo_path): the cache directory is removed if it is there
purge_cache(c) == Absent

\* read_file(path): open(path) of a relative path resolves against the
\* working directory of the process
read_file(d, filename) == d["cwd"][filename]

\* write_files(repo_path, files): the dict is walked in insertion order,
\* "cog.yaml" first; open(path, "w") truncates the file, and f.write(None)
\* raises TypeError after that.
write_files(d, rp, fs) ==
    IF fs[COG_YAML] = NoneText
    THEN [disk |-> [d EXCEPT ![rp][COG_YAML] = EmptyText], raised |-> TRUE]
    ELSE IF fs[PREDICT_PY] = NoneText
    THEN [disk |-> [d EXCEPT ![rp][COG_YAML] = fs[COG_YAML],
                             ![rp][PREDICT_PY] = EmptyText],
          raised |-> TRUE]
    ELSE [disk |-> [d EXCEPT ![rp][COG_YAML] = fs[COG_YAML],
                             ![rp][PREDICT_PY] = fs[PREDICT_PY]],
          raised |-> FALSE]

(***************************************************************************)
(* call_gpt: the text-generation service.  A request ends with a text,     *)
(* with MaxTokensExceeded, or with another exception.                      *)
(***************************************************************************)
Reply(t) == [kind |-> "text", text |-> t]
MaxTokensExceeded == [kind |-> "MaxTokensExceeded", text |-> << >>]
OtherException == [kind |-> "Exception", text |-> << >>]

\* the exceptions that end the process: the one call_gpt raises for a service
\* error, and the ValueErrors of the helpers with their messages
ServiceError == "Exception"
OrderPathsFailed == "ValueError: Failed to order paths"
GenerationFailed == "ValueError: Failed to generate a predict.py file"
UnsupportedFileType == "ValueError: Unsupported file type"
DiagnosisFailed == "ValueError: Failed to diagnose error"
PatchFailed == "ValueError: Failed to generate patch"
CogYamlFixFailed == "ValueError: Failed to get cog.yaml fix"

Replies(texts) == {Reply(t) : t \in texts} \cup {MaxTokensExceeded, OtherException}

ERROR_COG_PREDICT == <<Txt("cog_predict")>>
ERROR_PREDICT_PY == <<Txt("predict.py")>>
ERROR_COG_YAML == <<Txt("cog.yaml")>>

RecognizedLabels == {ERROR_PREDICT_PY, ERROR_COG_PREDICT, ERROR_COG_YAML}

(***************************************************************************)
(* What the environment supplies to one execution: the replies of the      *)
(* text-generation service and the outcome of each run of the command.     *)
(***************************************************************************)
\* replies to the request of generate_files
GenerationTexts ==
    { <<file_start(COG_YAML)>> \o FenceOpen \o <<Txt("y1")>> \o FenceClose
          \o <<file_end(COG_YAML), NL, file_start(PREDICT_PY), NL, Txt("p1"), NL,
                file_end(PREDICT_PY)>>,
      <<file_start(COG_YAML), Txt("y1"), file_end(COG_YAML),
        file_start(PREDICT_PY), Txt("p1")>>,
      <<Txt("y1"), file_end(COG_YAML),
        file_start(PREDICT_PY), Txt("p1"), file_end(PREDICT_PY)>>,
      <<file_start(COG_YAML), Txt("y1"), file_end(COG_YAML),
        Txt("p1"), file_end(PREDICT_PY)>>,
      << >> }

\* replies to the request of fix_cog_yaml
FixCogYamlTexts ==
    { <<Txt("Here it is:"), NL, file_start(COG_YAML)>> \o FenceOpen \o <<Txt("y2")>>
          \o FenceClose \o <<file_end(COG_YAML)>>,
      <<file_start(COG_YAML), Txt("y1"), file_end(COG_YAML)>>,
      <<file_start(COG_YAML), WhiteSpace, file_end(COG_YAML)>>,
      <<Txt("y2")>> }

\* replies to the request of fix_predict_py: a diff that patch applies, giving
\* the named text, or one that patch rejects
Diff(target) == <<Tok("diff", target)>>
FixPredictPyTexts == {Diff("p1"), Diff("p2"), <<Txt("no diff")>>}

\* patch(contents, diff): subprocess.run(["patch", ...], check=True) raises
\* when the patch tool rejects the diff
patch(contents, diff) ==
    IF Len(diff) = 1 /\ diff[1].kind = "diff"
    THEN [raised |-> FALSE, text |-> <<Txt(diff[1].val)>>]
    ELSE [raised |-> TRUE, text |-> contents]

\* replies to the request of generate_predict_command
CommandTexts == {<<Txt("cog predict -i n=1")>>, <<Txt("cog predict -i image=@input.jpg")>>,
                 <<Txt("cog predict -i f=@input.xyz")>>}

\* create_files_for_predict_command: an input file that does not exist is
\* created under /tmp and the command is rewritten to name it;
\* create_empty_file raises ValueError for a file type it does not know
create_files_for_predict_command(command) ==
    IF command = <<Txt("cog predict -i image=@input.jpg")>>
    THEN [raised |-> FALSE, command |-> <<Txt("cog predict -i image=@/tmp/input.jpg")>>]
    ELSE IF command = <<Txt("cog predict -i f=@input.xyz")>>
    THEN [raised |-> TRUE, command |-> command]
    ELSE [raised |-> FALSE, command |-> command]

\* replies to the request of diagnose_error
DiagnosisTexts == RecognizedLabels \cup {<<Txt("predict.py"), WhiteSpace>>, <<Txt("unsure")>>}

\* what a run of the predict command can give: a return code and the stderr read
RunOutcomes ==
    {[rc |-> c, stderr |-> t] : c \in ExitCodes \cup {0 - SIGKILL},
                               t \in SeqsUpTo(Lines, 1)}

InitialDisks ==
    {d \in [Dirs -> [FileNames -> {Absent, <<Txt("y0")>>, <<Txt("p0")>>,
                                   <<Txt("yc")>>, <<Txt("pc")>>}]] :
        /\ d["repo"][COG_YAML] \in {Absent, <<Txt("y0")>>}
        /\ d["repo"][PREDICT_PY] \in {Absent, <<Txt("p0")>>}
        /\ d["cwd"][COG_YAML] \in {Absent, <<Txt("yc")>>}
        /\ d["cwd"][PREDICT_PY] \in {Absent, <<Txt("pc")>>}}

TerminalStates == {"Succeeded", "ExhaustedAttempts", "FatalError", "Returned", "NoApiKey"}

\* the values of the variables of the other specification while one runs
LoopIdle ==
    /\ openai_api_key = TRUE
    /\ repo = ""
    /\ attempts = 0
    /\ tell = NoneText
    /\ initialize = FALSE
    /\ predict_command = NoneText
    /\ disk = [dir \in Dirs |-> [f \in FileNames |-> Absent]]
    /\ cache = Absent
    /\ files = [f \in FileNames |-> NoneText]
    /\ pc = "idle"
    /\ attempt = 0
    /\ error_source = NoneText
    /\ inner = 0
    /\ first_bad = NoneText
    /\ exit_status = None
    /\ exc = None
    /\ n_runs = 0
    /\ n_success = 0
    /\ n_diagnose = 0
    /\ n_branches = 0
    /\ n_repairs = 0
    /\ n_requests = 0
    /\ cmd_source = NoneText

RunIdle ==
    /\ script = << >>
    /\ exitcode = 0
    /\ written = 0
    /\ pipe_open = FALSE
    /\ child = "exited"
    /\ rpc = "idle"
    /\ nread = 0
    /\ stderr = << >>
    /\ echoed = << >>
    /\ returncode = None
    /\ result = None

(***************************************************************************)
(* The AI object of ai.py.  A turn is a role and a content; a content and  *)
(* the transcript file are sequences of lines.  A line is a header line    *)
(* "## <role>:", an empty line, a line of text, or a line of text with     *)
(* blanks around it.  The empty string is the content of one empty line.   *)
(***************************************************************************)
Header(r) == Tok("header", r)
Blank == Tok("blank", "")
TextLine(v) == Tok("line", v)
Indented(v) == Tok("indented line", v)

Turn(r, c) == [role |-> r, content |-> c]

\* str.upper() and str.lower() on the role names of the model
upper(r) ==
    CASE r \in {"user", "User", "USER"} -> "USER"
      [] r \in {"assistant", "Assistant", "ASSISTANT"} -> "ASSISTANT"
      [] r \in {"note", "Note", "NOTE"} -> "NOTE"
      [] OTHER -> "SYSTEM"

lower(r) ==
    CASE r \in {"user", "User", "USER"} -> "user"
      [] r \in {"assistant", "Assistant", "ASSISTANT"} -> "assistant"
      [] r \in {"note", "Note", "NOTE"} -> "note"
      [] OTHER -> "system"

\* a transcript whose first section is left out
system_section_missing(sp) == << >>

\* line 127: f.write(f"## SYSTEM:\n\n{self.system_prompt}\n\n")
system_section(sp) == <<Header("SYSTEM"), Blank>> \o sp \o <<Blank>>

\* line 131: f.write(f"## {role}:\n\n{content}\n\n")
turn_section(t) == <<Header(upper(t.role)), Blank>> \o t.content \o <<Blank>>

\* lines 128-131: the loop over self.history
RECURSIVE turn_sections(_)
turn_sections(h) ==
    IF h = << >> THEN << >> ELSE turn_section(Head(h)) \o turn_sections(Tail(h))

\* save_chat_history: the lines of the file after open("w") and the writes
save_chat_history(sp, h) == system_section(sp) \o turn_sections(h)

\* line.strip()
strip_line(l) == IF l.kind = "indented line" THEN TextLine(l.val) ELSE l

\* lines 143-150 and 156-163: a section that has a role and at least one
\* non-empty line is kept: as the system prompt when the role is SYSTEM, as
\* a turn with the lower-cased role otherwise
flush(role, cur, h, sp) ==
    IF role # None /\ cur # << >>
    THEN IF role = "SYSTEM"
         THEN [history |-> h, system_prompt |-> cur]
         ELSE [history |-> Append(h, Turn(lower(role), cur)), system_prompt |-> sp]
    ELSE [history |-> h, system_prompt |-> sp]

\* lines 141-153: the loop over the lines of the file
RECURSIVE load_lines(_, _, _, _, _)
load_lines(lines, role, cur, h, sp) ==
    IF lines = << >> THEN flush(role, cur, h, sp)
    ELSE LET line == strip_line(Head(lines))
         IN  IF line.kind = "header"
             THEN LET f == flush(role, cur, h, sp)
                  IN  load_lines(Tail(lines), line.val,
                                 IF role # None /\ cur # << >> THEN << >> ELSE cur,
                                 f.history, f.system_prompt)
             ELSE IF line # Blank
             THEN load_lines(Tail(lines), role, Append(cur, line), h, sp)
             ELSE load_lines(Tail(lines), role, cur, h, sp)

\* load_chat_history: self.history = [] and the parse of the file
load_chat_history(lines, sp) == load_lines(lines, None, << >>, << >>, sp)

\* a call that records the outgoing turns only
extend_only(h, msgs, r) == h \o msgs

\* lines 60-61: self.history.extend(messages) and the append of the reply
extend_and_append(h, msgs, r) == (h \o msgs) \o <<Turn("assistant", r)>>

\* the value of a result before the function was applied
NotCalled == <<Tok("not called", "")>>

ExtractIdle ==
    /\ gpt_response = << >>
    /\ wanted = COG_YAML
    /\ xpc = "idle"
    /\ extracted = NotCalled
    /\ agent_extracted = NotCalled

SessionIdle ==
    /\ provider = "anthropic"
    /\ system_prompt = << >>
    /\ history = << >>
    /\ transcript = Absent
    /\ apc = "idle"
    /\ messages = << >>
    /\ response = NoneText
    /\ n_api = 0
    /\ written_history = << >>
    /\ raised = None

ParseIdle ==
    /\ raw_output = << >>
    /\ max_length = 0
    /\ ppc = "idle"
    /\ excerpt = << >>
    /\ truncated = << >>

ReaderIdle ==
    /\ flushed = 0
    /\ reader_pc = "idle"
    /\ seen = << >>
    /\ reader_history = << >>

\* what a call of a function gives: a value or an exception
Outcome(k, t, b, e) == [kind |-> k, label |-> t, flag |-> b, exc |-> e]

NoOutcome == Outcome("not called", NoneText, FALSE, None)

CallIdle ==
    /\ retry_attempts = 0
    /\ retry_attempt = 0
    /\ retry_pc = "idle"
    /\ retry_calls = 0
    /\ retry_last = NoOutcome
    /\ retry_result = NoOutcome
    /\ cache_file = << >>
    /\ cache_pc = "idle"
    /\ cache_call = << >>
    /\ cache_depth = 0
    /\ cache_result = NotCalled
    /\ cache_computed = << >>
    /\ cache_completed = << >>

(***************************************************************************)
(* SpecRun: run_cog_predict.                                               *)
(***************************************************************************)
InitRun ==
    /\ script \in SeqsUpTo(Lines, MaxLines)
    /\ exitcode \in ExitCodes
    /\ written = 0
    /\ pipe_open = TRUE
    /\ child = "running"
    /\ rpc = "loop"
    /\ nread = 0
    /\ stderr = << >>
    /\ echoed = << >>
    /\ returncode = None
    /\ result = None
    /\ LoopIdle
    /\ ExtractIdle
    /\ SessionIdle
    /\ ParseIdle
    /\ ReaderIdle
    /\ CallIdle

\* the child writes its next line to stderr
ChildWrite ==
    /\ child = "running" /\ pipe_open
    /\ written < Len(script)
    /\ written' = written + 1
    /\ UNCHANGED <<script, exitcode, pipe_open, child, rpc, nread, stderr, echoed,
                   returncode, result>>
    /\ UNCHANGED <<loopVars, histVars, auxVars>>

\* the child closes stderr and keeps running
ChildClose ==
    /\ child = "running" /\ pipe_open
    /\ written = Len(script)
    /\ pipe_open' = FALSE
    /\ UNCHANGED <<script, exitcode, written, child, rpc, nread, stderr, echoed,
                   returncode, result>>
    /\ UNCHANGED <<loopVars, histVars, auxVars>>

\* the child ends on its own
ChildExit ==
    /\ child = "running"
    /\ written = Len(script)
    /\ child' = "exited"
    /\ pipe_open' = FALSE
    /\ UNCHANGED <<script, exitcode, written, rpc, nread, stderr, echoed,
                   returncode, result>>
    /\ UNCHANGED <<loopVars, histVars, auxVars>>

\* a runner that keeps the sentinel line out of what it returns
accumulate_unless_sentinel(acc, l) == IF HasSentinel(l) THEN acc ELSE Append(acc, l)

\* stderr += line
accumulate(acc, l) == Append(acc, l)

\* one iteration of "for line in proc.stderr" up to the sentinel test
ReadLine ==
    /\ rpc = "loop"
    /\ nread < written
    /\ LET line == script[nread + 1]
       IN  /\ nread' = nread + 1
           /\ echoed' = Append(echoed, line)
           /\ stderr' = accumulate(stderr, line)
           /\ rpc' = IF HasSentinel(line) THEN "kill" ELSE "loop"
    /\ UNCHANGED <<script, exitcode, written, pipe_open, child, returncode, result>>
    /\ UNCHANGED <<loopVars, histVars, auxVars>>

\* proc.kill(); break
Kill ==
    /\ rpc = "kill"
    /\ child' = proc_kill(child)
    /\ pipe_open' = IF child' = "killed" THEN FALSE ELSE pipe_open
    /\ rpc' = "wait"
    /\ UNCHANGED <<script, exitcode, written, nread, stderr, echoed, returncode, result>>
    /\ UNCHANGED <<loopVars, histVars, auxVars>>

\* the for loop ends at end of file: every writer has closed the pipe
ReadEOF ==
    /\ rpc = "loop"
    /\ nread = written
    /\ ~pipe_open
    /\ rpc' = "wait"
    /\ UNCHANGED <<script, exitcode, written, pipe_open, child, nread, stderr, echoed,
                   returncode, result>>
    /\ UNCHANGED <<loopVars, histVars, auxVars>>

\* proc.wait() and the success test
WaitAndReturn ==
    /\ rpc = "wait"
    /\ child # "running"
    /\ returncode' = proc_wait(child, exitcode)
    /\ result' = run_result(returncode', stderr)
    /\ rpc' = "returned"
    /\ UNCHANGED <<script, exitcode, written, pipe_open, child, nread, stderr, echoed>>
    /\ UNCHANGED <<loopVars, histVars, auxVars>>

NextRun ==
    \/ ChildWrite
    \/ ChildClose
    \/ ChildExit
    \/ ReadLine
    \/ Kill
    \/ ReadEOF
    \/ WaitAndReturn

SpecRun == InitRun /\ [][NextRun]_vars


(***************************************************************************)
(* SpecAgentRun: CogPredictAgent.run_cog_predict of agents.py, beside the  *)
(* same child process.                                                     *)
(***************************************************************************)
InitAgentRun ==
    /\ script \in SeqsUpTo(Lines, MaxLines)
    /\ exitcode \in ExitCodes
    /\ written = 0
    /\ pipe_open = TRUE
    /\ child = "running"
    /\ rpc = "agent_loop"
    /\ nread = 0
    /\ stderr = << >>
    /\ echoed = << >>
    /\ returncode = None
    /\ result = None
    /\ LoopIdle
    /\ ExtractIdle
    /\ SessionIdle
    /\ ParseIdle
    /\ ReaderIdle
    /\ CallIdle

\* _collect_stderr: one iteration of "for line in proc.stderr"
CollectStderr ==
    /\ rpc = "agent_loop"
    /\ nread < written
    /\ LET line == script[nread + 1]
       IN  /\ nread' = nread + 1
           /\ echoed' = Append(echoed, line)
           /\ stderr' = accumulate(stderr, line)
    /\ UNCHANGED <<script, exitcode, written, pipe_open, child, rpc, returncode, result>>
    /\ UNCHANGED <<loopVars, histVars, auxVars>>

\* proc.returncode == 0 and "Traceback (most recent call last)" not in stderr.
\* Popen.returncode is None until poll(), wait() or communicate() has
\* collected the child, and None == 0 is False.
agent_run_result(rc, text) == IF rc = None THEN FALSE ELSE run_result(rc, text)

\* the for loop ends at end of file and run_cog_predict returns: nothing
\* between Popen and the test of proc.returncode waits for the child
AgentReturn ==
    /\ rpc = "agent_loop"
    /\ nread = written
    /\ ~pipe_open
    /\ result' = agent_run_result(returncode, stderr)
    /\ rpc' = "agent_returned"
    /\ UNCHANGED <<script, exitcode, written, pipe_open, child, nread, stderr, echoed,
                   returncode>>
    /\ UNCHANGED <<loopVars, histVars, auxVars>>

NextAgentRun ==
    \/ ChildWrite
    \/ ChildClose
    \/ ChildExit
    \/ CollectStderr
    \/ AgentReturn

SpecAgentRun == InitAgentRun /\ [][NextAgentRun]_vars


(***************************************************************************)
(* Spec: the autocog command.                                              *)
(***************************************************************************)
Init ==
    /\ openai_api_key \in BOOLEAN
    /\ repo \in {"", "/repo"}
    /\ attempts \in (0 - NegAttempts)..MaxAttempts
    /\ tell \in {NoneText, <<Txt("use the small model")>>}
    /\ initialize \in BOOLEAN
    /\ predict_command \in {NoneText, <<Txt("cog predict -i n=1")>>}
    /\ disk \in InitialDisks
    /\ repo = "" => \A f \in FileNames : disk["repo"][f] = Absent
    /\ cache \in {Absent, <<Txt("paths")>>}
    /\ files = [f \in FileNames |-> NoneText]
    /\ pc = "start"
    /\ attempt = 0
    /\ error_source = NoneText
    /\ inner = 0
    /\ first_bad = NoneText
    /\ exit_status = None
    /\ exc = None
    /\ n_runs = 0
    /\ n_success = 0
    /\ n_diagnose = 0
    /\ n_branches = 0
    /\ n_repairs = 0
    /\ n_requests = 0
    /\ cmd_source = NoneText
    /\ RunIdle
    /\ ExtractIdle
    /\ SessionIdle
    /\ ParseIdle
    /\ ReaderIdle
    /\ CallIdle

options == <<openai_api_key, repo, attempts, tell, initialize>>

\* an uncaught exception ends the process with status 1
Raise(e) ==
    /\ pc' = "FatalError"
    /\ exit_status' = 1
    /\ exc' = e

\* autocog(), lines 600-605: without an API key the command exits with status 1
Start ==
    /\ pc = "start"
    /\ IF ~openai_api_key
       THEN pc' = "NoApiKey" /\ exit_status' = 1 /\ UNCHANGED exc
       ELSE pc' = "setup" /\ UNCHANGED <<exit_status, exc>>
    /\ UNCHANGED <<options, predict_command, disk, cache, files, attempt, error_source,
                   inner, first_bad>>
    /\ UNCHANGED <<histVars, runVars, auxVars>>

\* a command that generates whatever the repository holds
continues_from_disk_never(d, rp, t) == FALSE

\* line 620: is_initialized(repo_path) and not tell
continues_from_disk(d, rp, t) == is_initialized(d, rp) /\ t = NoneText

\* autocog(), lines 617-639: the optional initialize_project, then the choice
\* between continuing from the files on disk and generating them
Setup ==
    /\ pc = "setup"
    /\ LET d1 == IF initialize THEN initialize_project(disk, repo_path) ELSE disk
           c1 == IF initialize THEN purge_cache(cache) ELSE cache
       IN  /\ disk' = d1
           /\ cache' = c1
           /\ IF continues_from_disk(d1, repo_path, tell)
              THEN IF \E f \in FileNames : read_file(d1, f) = Absent
                   THEN Raise("FileNotFoundError") /\ UNCHANGED files
                   ELSE /\ files' = [f \in FileNames |-> read_file(d1, f)]
                        /\ pc' = "gen_cmd"
                        /\ UNCHANGED <<exit_status, exc>>
              ELSE /\ pc' = "order_paths"
                   /\ UNCHANGED <<files, exit_status, exc>>
    /\ UNCHANGED <<options, predict_command, attempt, error_source, inner, first_bad>>
    /\ UNCHANGED <<histVars, runVars, auxVars>>

\* order_paths behind @cached("paths.pkl"): a stored result is returned as it
\* is; otherwise the paths are computed, which may raise, and stored
OrderPaths ==
    /\ pc = "order_paths"
    /\ IF cache # Absent
       THEN pc' = "generate" /\ UNCHANGED <<cache, exit_status, exc>>
       ELSE \E e \in {None, OrderPathsFailed, ServiceError} :
                IF e # None
                THEN Raise(e) /\ UNCHANGED cache
                ELSE /\ cache' = <<Txt("paths")>>
                     /\ pc' = "generate"
                     /\ UNCHANGED <<exit_status, exc>>
    /\ inner' = 0
    /\ first_bad' = NoneText
    /\ n_requests' = 0
    /\ UNCHANGED <<options, predict_command, disk, files, attempt, error_source>>
    /\ UNCHANGED <<n_runs, n_success, n_diagnose, n_branches, n_repairs, cmd_source>>
    /\ UNCHANGED <<runVars, auxVars>>

\* line 274: a reply is complete when it holds both end markers
is_complete(content) ==
    Contains(content, file_end(COG_YAML)) /\ Contains(content, file_end(PREDICT_PY))

\* generate_files, one frame of the recursion per step, with the write_files
\* that follows its return.  max_lengths[attempt] is evaluated before the
\* request and raises IndexError in the frame with attempt = len(max_lengths).
\* A frame whose reply is incomplete calls itself again at line 281 without
\* returning what that call returns, and goes on with its own reply.
GenerateFiles ==
    /\ pc = "generate"
    /\ IF inner >= MaxLengthsLen
       THEN Raise("IndexError") /\ UNCHANGED <<disk, files, inner, first_bad, n_requests>>
       ELSE \E r \in Replies(GenerationTexts) :
           /\ n_requests' = n_requests + 1
           /\ IF r.kind = "Exception"
              THEN Raise(ServiceError) /\ UNCHANGED <<disk, files, inner, first_bad>>
              ELSE IF r.kind = "MaxTokensExceeded"
              THEN IF inner = MaxLengthsLen
                   THEN Raise("MaxTokensExceeded") /\ UNCHANGED <<disk, files, inner, first_bad>>
                   ELSE /\ inner' = inner + 1
                        /\ UNCHANGED <<pc, exit_status, exc, disk, files, first_bad>>
              ELSE IF ~is_complete(r.text)
              THEN IF inner = MaxLengthsLen
                   THEN Raise(GenerationFailed) /\ UNCHANGED <<disk, files, inner, first_bad>>
                   ELSE /\ inner' = inner + 1
                        /\ first_bad' = IF first_bad = NoneText THEN r.text ELSE first_bad
                        /\ UNCHANGED <<pc, exit_status, exc, disk, files>>
              ELSE LET content == IF first_bad = NoneText THEN r.text ELSE first_bad
                       fs == [f \in FileNames |-> file_from_gpt_response(content, f)]
                       w == write_files(disk, repo_path, fs)
                   IN  /\ files' = fs
                       /\ disk' = w.disk
                       /\ IF w.raised
                          THEN Raise("TypeError")
                          ELSE pc' = "gen_cmd" /\ UNCHANGED <<exit_status, exc>>
                       /\ UNCHANGED <<inner, first_bad>>
    /\ UNCHANGED <<options, predict_command, cache, attempt, error_source>>
    /\ UNCHANGED <<n_runs, n_success, n_diagnose, n_branches, n_repairs, cmd_source>>
    /\ UNCHANGED <<runVars, auxVars>>

\* a command repair that reuses the text of the previous generation
command_source_stale(fs, previous) == previous

\* the predict.py text handed to generate_predict_command
command_source(fs, previous) == fs[PREDICT_PY]

\* lines 641-643: the command of option -p, or a generated one, then
\* create_files_for_predict_command
InitialCommand ==
    /\ pc = "gen_cmd"
    /\ IF predict_command # NoneText
       THEN LET c == create_files_for_predict_command(predict_command)
            IN  /\ IF c.raised
                   THEN Raise(UnsupportedFileType) /\ UNCHANGED predict_command
                   ELSE /\ predict_command' = c.command
                        /\ pc' = "run"
                        /\ UNCHANGED <<exit_status, exc>>
                /\ UNCHANGED cmd_source
       ELSE \E r \in Replies(CommandTexts) :
                IF r.kind # "text"
                THEN Raise(r.kind) /\ UNCHANGED <<predict_command, cmd_source>>
                ELSE LET c == create_files_for_predict_command(r.text)
                     IN  /\ cmd_source' = command_source(files, cmd_source)
                         /\ IF c.raised
                            THEN Raise(UnsupportedFileType) /\ UNCHANGED predict_command
                            ELSE /\ predict_command' = c.command
                                 /\ pc' = "run"
                                 /\ UNCHANGED <<exit_status, exc>>
    /\ UNCHANGED <<options, disk, cache, files, attempt, error_source, inner, first_bad>>
    /\ UNCHANGED <<n_runs, n_success, n_diagnose, n_branches, n_repairs, n_requests>>
    /\ UNCHANGED <<runVars, auxVars>>


\* a loop bound that is off by two iterations
loop_continues_once_more(a, n) == a <= n + 1

\* "for attempt in range(attempts)": there is another iteration
loop_continues(a, n) == a < n

\* a loop that never gives up inside an iteration
is_last_attempt_never(a, n) == FALSE

\* line 649: attempt == attempts - 1
is_last_attempt(a, n) == a = n - 1

\* lines 644-656: one run of the predict command and what the loop does with
\* its result
RunCogPredict ==
    /\ pc = "run"
    /\ loop_continues(attempt, attempts)
    /\ \E o \in RunOutcomes :
           LET success == run_result(o.rc, o.stderr)
           IN  /\ n_runs' = n_runs + 1
               /\ n_success' = IF success THEN n_success + 1 ELSE n_success
               /\ IF success
                  THEN /\ pc' = "Succeeded"
                       /\ exit_status' = 0 /\ UNCHANGED exc
                       /\ UNCHANGED <<inner, n_diagnose, n_requests>>
                  ELSE IF is_last_attempt(attempt, attempts)
                  THEN /\ pc' = "ExhaustedAttempts"
                       /\ exit_status' = 1 /\ UNCHANGED exc
                       /\ UNCHANGED <<inner, n_diagnose, n_requests>>
                  ELSE /\ pc' = "diagnose"
                       /\ inner' = 0
                       /\ n_diagnose' = n_diagnose + 1
                       /\ n_requests' = 0
                       /\ UNCHANGED <<exit_status, exc>>
    /\ UNCHANGED <<options, predict_command, disk, cache, files, attempt, error_source,
                   first_bad>>
    /\ UNCHANGED <<n_branches, n_repairs, cmd_source>>
    /\ UNCHANGED <<runVars, auxVars>>

\* the range is used up: autocog() returns and the process ends with status 0
LoopEnd ==
    /\ pc = "run"
    /\ ~loop_continues(attempt, attempts)
    /\ pc' = "Returned"
    /\ exit_status' = 0 /\ UNCHANGED exc
    /\ UNCHANGED <<options, predict_command, disk, cache, files, attempt, error_source,
                   inner, first_bad>>
    /\ UNCHANGED <<histVars, runVars, auxVars>>

\* a helper that allows itself one more recursive call
is_last_inner_attempt_late(a) == a = LastInnerAttempt + 1

\* lines 437, 463 and 471: attempt == 5
is_last_inner_attempt(a) == a = LastInnerAttempt

\* a diagnose_error that returns whatever the service answered
is_recognized_any(text) == TRUE

\* line 436: the reply is one of the three labels
is_recognized(text) == text \in RecognizedLabels

\* diagnose_error, one frame of the recursion per step
DiagnoseError ==
    /\ pc = "diagnose"
    /\ \E r \in Replies(DiagnosisTexts) :
           /\ n_requests' = n_requests + 1
           /\ IF r.kind = "Exception"
              THEN Raise(ServiceError) /\ UNCHANGED <<inner, error_source>>
              ELSE IF r.kind = "MaxTokensExceeded" \/ ~is_recognized(r.text)
              THEN IF is_last_inner_attempt(inner)
                   THEN /\ Raise(IF r.kind = "MaxTokensExceeded" THEN r.kind
                                 ELSE DiagnosisFailed)
                        /\ UNCHANGED <<inner, error_source>>
                   ELSE /\ inner' = inner + 1
                        /\ UNCHANGED <<pc, exit_status, exc, error_source>>
              ELSE /\ error_source' = r.text
                   /\ pc' = "dispatch"
                   /\ UNCHANGED <<inner, exit_status, exc>>
    /\ UNCHANGED <<options, predict_command, disk, cache, files, attempt, first_bad>>
    /\ UNCHANGED <<n_runs, n_success, n_diagnose, n_branches, n_repairs, cmd_source>>
    /\ UNCHANGED <<runVars, auxVars>>

\* lines 660-668: the if / elif / elif on error_source; when none of the three
\* tests holds the loop goes on to its next iteration
Dispatch ==
    /\ pc = "dispatch"
    /\ IF error_source \in {ERROR_PREDICT_PY, ERROR_COG_YAML, ERROR_COG_PREDICT}
       THEN /\ pc' = IF error_source = ERROR_PREDICT_PY THEN "fix_predict_py"
                     ELSE IF error_source = ERROR_COG_YAML THEN "fix_cog_yaml"
                     ELSE "regen_cmd"
            /\ n_branches' = n_branches + 1
            /\ UNCHANGED attempt
       ELSE /\ pc' = "run"
            /\ attempt' = attempt + 1
            /\ UNCHANGED n_branches
    /\ inner' = 0
    /\ n_requests' = 0
    /\ UNCHANGED <<options, predict_command, disk, cache, files, error_source, first_bad,
                   exit_status, exc>>
    /\ UNCHANGED <<n_runs, n_success, n_diagnose, n_repairs, cmd_source>>
    /\ UNCHANGED <<runVars, auxVars>>

\* line 455-459: the pattern takes the whole reply but for an opening fence at
\* its very start
diff_of(text) == SubSeq(text, after_open_fence(text, 1), Len(text))

\* lines 660-662: fix_predict_py, one frame of the recursion per step, then the
\* assignment to files["predict.py"] and write_files
FixPredictPy ==
    /\ pc = "fix_predict_py"
    /\ \E r \in Replies(FixPredictPyTexts) :
           /\ n_requests' = n_requests + 1
           /\ LET p == patch(files[PREDICT_PY], diff_of(r.text))
              IN  IF r.kind = "Exception"
                  THEN Raise(ServiceError) /\ UNCHANGED <<inner, files, disk, attempt, n_repairs>>
                  ELSE IF r.kind = "MaxTokensExceeded" \/ p.raised
                  THEN IF is_last_inner_attempt(inner)
                       THEN /\ Raise(IF r.kind = "MaxTokensExceeded" THEN r.kind
                                     ELSE PatchFailed)
                            /\ UNCHANGED <<inner, files, disk, attempt, n_repairs>>
                       ELSE /\ inner' = inner + 1
                            /\ UNCHANGED <<pc, exit_status, exc, files, disk, attempt, n_repairs>>
                  ELSE /\ files' = [files EXCEPT ![PREDICT_PY] = p.text]
                       /\ disk' = write_files(disk, repo_path, files').disk
                       /\ n_repairs' = n_repairs + 1
                       /\ attempt' = attempt + 1
                       /\ pc' = "run"
                       /\ UNCHANGED <<inner, exit_status, exc>>
    /\ UNCHANGED <<options, predict_command, cache, error_source, first_bad>>
    /\ UNCHANGED <<n_runs, n_success, n_diagnose, n_branches, cmd_source>>
    /\ UNCHANGED <<runVars, auxVars>>

\* lines 663-667: fix_cog_yaml, one frame of the recursion per step, then the
\* assignment to files["cog.yaml"] and write_files
FixCogYaml ==
    /\ pc = "fix_cog_yaml"
    /\ IF is_last_inner_attempt(inner)
       THEN /\ Raise(CogYamlFixFailed)
            /\ UNCHANGED <<inner, files, disk, attempt, n_repairs, n_requests>>
       ELSE \E r \in Replies(FixCogYamlTexts) :
           /\ n_requests' = n_requests + 1
           /\ LET contents == file_from_gpt_response(r.text, COG_YAML)
              IN  IF r.kind = "Exception"
                  THEN Raise(ServiceError) /\ UNCHANGED <<inner, files, disk, attempt, n_repairs>>
                  ELSE IF r.kind = "MaxTokensExceeded" \/ contents \in {NoneText, EmptyText}
                  THEN /\ inner' = inner + 1
                       /\ UNCHANGED <<pc, exit_status, exc, files, disk, attempt, n_repairs>>
                  ELSE /\ files' = [files EXCEPT ![COG_YAML] = contents]
                       /\ disk' = write_files(disk, repo_path, files').disk
                       /\ n_repairs' = n_repairs + 1
                       /\ attempt' = attempt + 1
                       /\ pc' = "run"
                       /\ UNCHANGED <<inner, exit_status, exc>>
    /\ UNCHANGED <<options, predict_command, cache, error_source, first_bad>>
    /\ UNCHANGED <<n_runs, n_success, n_diagnose, n_branches, cmd_source>>
    /\ UNCHANGED <<runVars, auxVars>>

\* lines 668-672: a new command from generate_predict_command, then
\* create_files_for_predict_command
RegenerateCommand ==
    /\ pc = "regen_cmd"
    /\ \E r \in Replies(CommandTexts) :
           /\ n_requests' = n_requests + 1
           /\ LET c == create_files_for_predict_command(r.text)
              IN  IF r.kind # "text"
                  THEN /\ Raise(r.kind)
                       /\ UNCHANGED <<predict_command, cmd_source, attempt, n_repairs>>
                  ELSE /\ cmd_source' = command_source(files, cmd_source)
                       /\ IF c.raised
                          THEN /\ Raise(UnsupportedFileType)
                               /\ UNCHANGED <<predict_command, attempt, n_repairs>>
                          ELSE /\ predict_command' = c.command
                               /\ n_repairs' = n_repairs + 1
                               /\ attempt' = attempt + 1
                               /\ pc' = "run"
                               /\ UNCHANGED <<exit_status, exc>>
    /\ UNCHANGED <<options, disk, cache, files, error_source, inner, first_bad>>
    /\ UNCHANGED <<n_runs, n_success, n_diagnose, n_branches>>
    /\ UNCHANGED <<runVars, auxVars>>

Next ==
    \/ Start
    \/ Setup
    \/ OrderPaths
    \/ GenerateFiles
    \/ InitialCommand
    \/ RunCogPredict
    \/ LoopEnd
    \/ DiagnoseError
    \/ Dispatch
    \/ FixPredictPy
    \/ FixCogYaml
    \/ RegenerateCommand

Spec == Init /\ [][Next]_vars


(***************************************************************************)
(* SpecExtract: file_from_gpt_response of autocog.py and the extraction of *)
(* the agents, each applied to one generated text.                         *)
(***************************************************************************)
\* what a generated text is put together from: the markers of cog.yaml, a
\* marker line with "cog_yaml" in it, a fence line with the line breaks around
\* it, without and with a language tag, a lone fence, a line break, content
Pieces ==
    { <<file_start(COG_YAML)>>, <<file_end(COG_YAML)>>, <<near_start(COG_YAML)>>,
      <<NL, Ticks, NL>>, <<NL, Ticks, Lower, NL>>, <<Ticks>>, <<NL>>, <<Txt("y1")>> }

RECURSIVE Concat(_)
Concat(ps) == IF ps = << >> THEN << >> ELSE Head(ps) \o Concat(Tail(ps))

ExtractInputs == {Concat(ps) : ps \in SeqsUpTo(Pieces, MaxPieces)}

InitExtract ==
    /\ gpt_response \in ExtractInputs
    /\ wanted \in FileNames
    /\ xpc = "autocog"
    /\ extracted = NotCalled
    /\ agent_extracted = NotCalled
    /\ LoopIdle
    /\ RunIdle
    /\ SessionIdle
    /\ ParseIdle
    /\ ReaderIdle
    /\ CallIdle

\* autocog.py: file_from_gpt_response(content, filename)
FileFromGptResponse ==
    /\ xpc = "autocog"
    /\ extracted' = file_from_gpt_response(gpt_response, wanted)
    /\ xpc' = "agents"
    /\ UNCHANGED <<gpt_response, wanted, agent_extracted>>
    /\ UNCHANGED <<runVars, loopVars, histVars, callVars, sessionVars, parseVars, readerVars>>

\* agents.py: _extract_file_from_gpt_response(content, filename)
ExtractFileFromGptResponse ==
    /\ xpc = "agents"
    /\ agent_extracted' = extract_file_from_gpt_response(gpt_response, wanted)
    /\ xpc' = "done"
    /\ UNCHANGED <<gpt_response, wanted, extracted>>
    /\ UNCHANGED <<runVars, loopVars, histVars, callVars, sessionVars, parseVars, readerVars>>

NextExtract ==
    \/ FileFromGptResponse
    \/ ExtractFileFromGptResponse

SpecExtract == InitExtract /\ [][NextExtract]_vars


(***************************************************************************)
(* SpecRoundTrip: save_chat_history, then load_chat_history, on one AI     *)
(* object with a given history.                                            *)
(***************************************************************************)
SystemPrompt == <<TextLine("You are an expert")>>

RoundTripRoles == {"user", "assistant", "User"}

ContentLines == {Blank, TextLine("hello"), Indented("hello"), Header("Note")}

\* a content has at least one line
Contents == SeqsUpTo(ContentLines, MaxContentLines) \ {<< >>}

Histories == SeqsUpTo({Turn(r, c) : r \in RoundTripRoles, c \in Contents}, MaxTurns)

InitRoundTrip ==
    /\ provider = "anthropic"
    /\ system_prompt = SystemPrompt
    /\ history \in Histories
    /\ transcript = Absent
    /\ apc = "ready"
    /\ messages = << >>
    /\ response = NoneText
    /\ n_api = 0
    /\ written_history = << >>
    /\ raised = None
    /\ LoopIdle
    /\ RunIdle
    /\ ExtractIdle
    /\ ParseIdle
    /\ ReaderIdle
    /\ CallIdle

\* ai.save_chat_history()
RoundTripSave ==
    /\ apc = "ready"
    /\ transcript' = save_chat_history(system_prompt, history)
    /\ written_history' = history
    /\ apc' = "saved"
    /\ raised' = None
    /\ UNCHANGED <<provider, system_prompt, history, messages, response, n_api>>
    /\ UNCHANGED <<runVars, loopVars, histVars, callVars, extractVars, parseVars, readerVars>>

\* ai.load_chat_history()
RoundTripLoad ==
    /\ apc = "saved"
    /\ LET l == load_chat_history(transcript, system_prompt)
       IN  /\ history' = l.history
           /\ system_prompt' = l.system_prompt
    /\ apc' = "loaded"
    /\ raised' = None
    /\ UNCHANGED <<provider, transcript, messages, response, n_api, written_history>>
    /\ UNCHANGED <<runVars, loopVars, histVars, callVars, extractVars, parseVars, readerVars>>

NextRoundTrip ==
    \/ RoundTripSave
    \/ RoundTripLoad

SpecRoundTrip == InitRoundTrip /\ [][NextRoundTrip]_vars


(***************************************************************************)
(* SpecSession: one AI object from its construction on; call,              *)
(* save_chat_history and clear_history in any order.                       *)
(***************************************************************************)
\* a transcript that an earlier execution left at chat_history_path
StaleHistory ==
    <<Turn("user", <<TextLine("old question")>>),
      Turn("assistant", <<TextLine("old answer")>>)>>

\* texts of the outgoing turns and of the replies
CallContents == {<<TextLine("hello")>>, <<Blank>>, <<TextLine("a"), Header("Note")>>}

\* the argument "messages": a string, which stands for one user turn, or a
\* list of turns
CallMessages ==
    {<<Turn("user", c)>> : c \in CallContents}
        \cup {<<Turn("user", <<TextLine("hello")>>), Turn("assistant", <<TextLine("Okay.")>>)>>}

\* an exception that leaves call()
Raised(kind) == <<Tok("raised", kind)>>

IsRaised(r) == r # << >> /\ r[1].kind = "raised"

InitSession ==
    /\ provider \in {"anthropic", "openai"}
    /\ system_prompt = SystemPrompt
    /\ history = << >>
    /\ written_history \in {<< >>, StaleHistory}
    /\ transcript = IF written_history = << >> THEN Absent
                    ELSE save_chat_history(SystemPrompt, written_history)
    /\ apc = "idle"
    /\ messages = << >>
    /\ response = NoneText
    /\ n_api = 0
    /\ raised = None
    /\ LoopIdle
    /\ RunIdle
    /\ ExtractIdle
    /\ ParseIdle
    /\ ReaderIdle
    /\ CallIdle

\* what a request can end with besides a reply: an exception of the library
\* of the provider.  RateLimitError is the refusal for the rate limit; phrase
\* tells whether str(e).lower() holds "rate limit".
ProviderErrors ==
    {[lib |-> "anthropic", class |-> c, phrase |-> p] :
        c \in {"RateLimitError", "APIStatusError", "APIConnectionError"},
        p \in BOOLEAN}

\* line 67 with the import of line 7: the except clause names RateLimitError
\* and APIStatusError of the openai library
is_caught(e) == e.lib = "openai" /\ e.class \in {"RateLimitError", "APIStatusError"}

\* line 68: a caught exception is retried when its text holds "rate limit"
is_retried(e) == is_caught(e) /\ e.phrase

\* a call that records its outgoing turns before the request is made
history_after_raise_extended(h, msgs) == h \o msgs

\* lines 52-61: an exception of the request leaves the try block before
\* lines 60-63, so the history is the one the call found
history_after_raise(h, msgs) == h

\* one frame of call(): _call_openai raises NameError before any request, for
\* the name system_prompt is not defined there; _call_anthropic sends the
\* request, which is answered or raises.  An exception that is caught and
\* retried leads to the frame of line 74; every other one leaves call().
call_frame(msgs) ==
    /\ messages' = msgs
    /\ IF provider = "openai"
       THEN /\ response' = Raised("NameError")
            /\ raised' = "NameError"
            /\ apc' = "idle"
            /\ UNCHANGED <<history, transcript, written_history, n_api>>
       ELSE /\ n_api' = n_api + 1
            /\ \/ \E r \in CallContents :
                      /\ history' = extend_and_append(history, msgs, r)
                      /\ transcript' = save_chat_history(system_prompt, history')
                      /\ written_history' = history'
                      /\ response' = r
                      /\ raised' = None
                      /\ apc' = "idle"
               \/ \E e \in ProviderErrors :
                      /\ IF is_retried(e)
                         THEN /\ apc' = "calling"
                              /\ response' = NoneText
                              /\ raised' = None
                         ELSE /\ apc' = "idle"
                              /\ response' = Raised(e.class)
                              /\ raised' = e.class
                      /\ history' = history_after_raise(history, msgs)
                      /\ UNCHANGED <<transcript, written_history>>
    /\ UNCHANGED <<provider, system_prompt>>
    /\ UNCHANGED <<runVars, loopVars, histVars, callVars, extractVars, parseVars, readerVars>>

\* ai.call(messages).  No exception of ProviderErrors is retried, so the
\* frame of line 74 is never entered.
Call ==
    /\ apc = "idle"
    /\ n_api < MaxApiCalls
    /\ \E m \in CallMessages :
           /\ Len(history) + Len(m) + 1 <= MaxHistoryLen
           /\ call_frame(m)

\* ai.save_chat_history()
SaveChatHistory ==
    /\ apc = "idle"
    /\ transcript' = save_chat_history(system_prompt, history)
    /\ written_history' = history
    /\ raised' = None
    /\ UNCHANGED <<provider, system_prompt, history, apc, messages, response, n_api>>
    /\ UNCHANGED <<runVars, loopVars, histVars, callVars, extractVars, parseVars, readerVars>>

\* a clear_history that unlinks without looking
clear_history_unguarded(h, t) ==
    [history |-> << >>,
     transcript |-> Absent,
     raised |-> IF t = Absent THEN "FileNotFoundError" ELSE None]

\* clear_history, lines 121-123: the history is emptied and the file is
\* unlinked if it exists
clear_history(h, t) ==
    [history |-> << >>,
     transcript |-> IF t # Absent THEN Absent ELSE t,
     raised |-> None]

\* ai.clear_history()
ClearHistory ==
    /\ apc = "idle"
    /\ LET c == clear_history(history, transcript)
       IN  /\ history' = c.history
           /\ transcript' = c.transcript
           /\ raised' = c.raised
    /\ written_history' = << >>
    /\ UNCHANGED <<provider, system_prompt, apc, messages, response, n_api>>
    /\ UNCHANGED <<runVars, loopVars, histVars, callVars, extractVars, parseVars, readerVars>>

NextSession ==
    \/ Call
    \/ SaveChatHistory
    \/ ClearHistory

SpecSession == InitSession /\ [][NextSession]_vars


(***************************************************************************)
(* SpecLoad: load_chat_history on an AI object whose transcript file holds *)
(* any lines, or does not exist.                                           *)
(***************************************************************************)
TranscriptLines == {Header("SYSTEM"), Header("USER"), Blank, TextLine("hello")}

Transcripts == SeqsUpTo(TranscriptLines, MaxTranscriptLen) \cup {Absent}

InitLoad ==
    /\ provider = "anthropic"
    /\ system_prompt = SystemPrompt
    /\ history \in {<< >>, StaleHistory}
    /\ transcript \in Transcripts
    /\ apc = "stored"
    /\ messages = << >>
    /\ response = NoneText
    /\ n_api = 0
    /\ written_history = << >>
    /\ raised = None
    /\ LoopIdle
    /\ RunIdle
    /\ ExtractIdle
    /\ ParseIdle
    /\ ReaderIdle
    /\ CallIdle

\* ai.load_chat_history(): line 134 empties the history, the open of line 138
\* raises FileNotFoundError when there is no file, and the parse of lines
\* 141-163 raises nothing
LoadChatHistory ==
    /\ apc = "stored"
    /\ IF transcript = Absent
       THEN /\ history' = << >>
            /\ raised' = "FileNotFoundError"
            /\ UNCHANGED system_prompt
       ELSE LET l == load_chat_history(transcript, system_prompt)
            IN  /\ history' = l.history
                /\ system_prompt' = l.system_prompt
                /\ raised' = None
    /\ apc' = "loaded"
    /\ UNCHANGED <<provider, transcript, messages, response, n_api, written_history>>
    /\ UNCHANGED <<runVars, loopVars, histVars, callVars, extractVars, parseVars, readerVars>>

NextLoad == LoadChatHistory

SpecLoad == InitLoad /\ [][NextLoad]_vars


(***************************************************************************)
(* SpecReader: one object saves its history while a second object, made    *)
(* for the same chat_history_path, loads it.  The file is what the system  *)
(* calls of the writer have made of it: open("w") truncates it, the writes *)
(* go to a buffer that is written out when it is full and when the file is *)
(* closed.                                                                 *)
(***************************************************************************)
\* the history of the writer: what the file holds, and the turns of one more call
NewHistories ==
    {extend_and_append(h, m, r) :
        h \in {<< >>, StaleHistory}, m \in CallMessages, r \in CallContents}

InitReader ==
    /\ provider = "anthropic"
    /\ system_prompt = SystemPrompt
    /\ written_history \in {<< >>, StaleHistory}
    /\ history \in {h \in NewHistories :
                      SubSeq(h, 1, Len(written_history)) = written_history}
    /\ transcript = save_chat_history(SystemPrompt, written_history)
    /\ apc = "saving"
    /\ messages = << >>
    /\ response = NoneText
    /\ n_api = 0
    /\ raised = None
    /\ flushed = 0
    /\ reader_pc = "ready"
    /\ seen = << >>
    /\ reader_history = << >>
    /\ LoopIdle
    /\ RunIdle
    /\ ExtractIdle
    /\ ParseIdle
    /\ CallIdle

\* line 126: self.chat_history_path.open("w") leaves an empty file
SaveOpen ==
    /\ apc = "saving"
    /\ transcript' = << >>
    /\ flushed' = 0
    /\ apc' = "writing"
    /\ UNCHANGED <<provider, system_prompt, history, messages, response, n_api,
                   written_history, raised, reader_pc, seen, reader_history>>
    /\ UNCHANGED <<runVars, loopVars, histVars, callVars, extractVars, parseVars>>

\* lines 127-131: the buffer of f is full and is written out; how much it
\* holds by then depends on its size and on the lengths of the lines
SaveFlush ==
    /\ apc = "writing"
    /\ \E n \in (flushed + 1)..(Len(save_chat_history(system_prompt, history)) - 1) :
           /\ flushed' = n
           /\ transcript' = SubSeq(save_chat_history(system_prompt, history), 1, n)
    /\ UNCHANGED <<provider, system_prompt, history, apc, messages, response, n_api,
                   written_history, raised, reader_pc, seen, reader_history>>
    /\ UNCHANGED <<runVars, loopVars, histVars, callVars, extractVars, parseVars>>

\* the end of the with block: the rest of the buffer is written out and the
\* file is closed
SaveClose ==
    /\ apc = "writing"
    /\ transcript' = save_chat_history(system_prompt, history)
    /\ flushed' = Len(transcript')
    /\ written_history' = history
    /\ apc' = "saved"
    /\ UNCHANGED <<provider, system_prompt, history, messages, response, n_api,
                   raised, reader_pc, seen, reader_history>>
    /\ UNCHANGED <<runVars, loopVars, histVars, callVars, extractVars, parseVars>>

\* load_chat_history() of the second object: lines 138-139 read the file as
\* it is, lines 141-163 parse what was read
ReaderLoad ==
    /\ reader_pc = "ready"
    /\ seen' = transcript
    /\ reader_history' = load_chat_history(transcript, SystemPrompt).history
    /\ reader_pc' = "loaded"
    /\ UNCHANGED <<sessionVars, flushed>>
    /\ UNCHANGED <<runVars, loopVars, histVars, callVars, extractVars, parseVars>>

NextReader ==
    \/ SaveOpen
    \/ SaveFlush
    \/ SaveClose
    \/ ReaderLoad

SpecReader == InitReader /\ [][NextReader]_vars


(***************************************************************************)
(* SpecParse: parse_cog_predict_error of autocog.py and _truncate_error of *)
(* the agents, each applied to one captured output.  A text is a sequence  *)
(* of characters; the two separators are written with one character each.  *)
(***************************************************************************)
\* "Running prediction...\n"
RunningPrediction == <<"R">>

\* "panic: "
Panic == <<"p">>

OutputChars == {"R", "p", "a", "b"}

\* str.find(sep, from): the first place at or after from where sep begins,
\* 0 when there is none
Find(s, sep, from) ==
    LET hits == {i \in from..(Len(s) - Len(sep) + 1) :
                    SubSeq(s, i, i + Len(sep) - 1) = sep}
    IN  IF hits = {} THEN 0 ELSE CHOOSE i \in hits : \A j \in hits : i <= j

\* s.split(sep)[0]
split_0(s, sep) ==
    LET i == Find(s, sep, 1) IN IF i = 0 THEN s ELSE SubSeq(s, 1, i - 1)

\* s.split(sep)[1], for an s that holds sep: what lies between the first sep
\* and the next one
split_1(s, sep) ==
    LET i == Find(s, sep, 1) IN split_0(SubSeq(s, i + Len(sep), Len(s)), sep)

\* s[-n:] for n >= 0; s[-0:] is s[0:]
last_chars(s, n) ==
    IF n = 0 \/ Len(s) <= n THEN s ELSE SubSeq(s, Len(s) - n + 1, Len(s))

\* parse_cog_predict_error(stderr, max_length=...)
parse_cog_predict_error(out, n) ==
    LET error == IF Find(out, RunningPrediction, 1) # 0
                 THEN split_0(split_1(out, RunningPrediction), Panic)
                 ELSE split_0(out, Panic)
    IN  last_chars(error, n)

\* ErrorDiagnosisAgent._truncate_error(error, max_length=...): error[:max_length]
truncate_error(error, n) == SubSeq(error, 1, IF Len(error) <= n THEN Len(error) ELSE n)

InitParse ==
    /\ raw_output \in SeqsUpTo(OutputChars, MaxOutputLen)
    /\ max_length \in 1..MaxLength
    /\ ppc = "ready"
    /\ excerpt = << >>
    /\ truncated = << >>
    /\ LoopIdle
    /\ RunIdle
    /\ ExtractIdle
    /\ SessionIdle
    /\ ReaderIdle
    /\ CallIdle

\* autocog.py: parse_cog_predict_error(stderr)
ParseCogPredictError ==
    /\ ppc = "ready"
    /\ excerpt' = parse_cog_predict_error(raw_output, max_length)
    /\ ppc' = "parsed"
    /\ UNCHANGED <<raw_output, max_length, truncated>>
    /\ UNCHANGED <<runVars, loopVars, histVars, callVars, extractVars, sessionVars, readerVars>>

\* agents.py: self._truncate_error(error)
TruncateError ==
    /\ ppc = "parsed"
    /\ truncated' = truncate_error(raw_output, max_length)
    /\ ppc' = "done"
    /\ UNCHANGED <<raw_output, max_length, excerpt>>
    /\ UNCHANGED <<runVars, loopVars, histVars, callVars, extractVars, sessionVars, readerVars>>

NextParse ==
    \/ ParseCogPredictError
    \/ TruncateError

SpecParse == InitParse /\ [][NextParse]_vars


(***************************************************************************)
(* SpecRetry: one invocation of ErrorDiagnosisAgent.diagnose_error behind  *)
(* the wrapper of retry(attempts).                                         *)
(***************************************************************************)
\* agents.py line 313: @retry(5)
DiagnoseRetries == 5

\* exceptions a call of the wrapped function can raise; the last one is not
\* a subclass of Exception
RetryExceptions == {"APIStatusError", "NameError", "KeyboardInterrupt"}

\* line 12: except Exception
is_exception(e) == e # "KeyboardInterrupt"

\* diagnose_error, agents.py lines 315-317: two requests, each of which may
\* raise, then the pair (diagnosis, package_error == "True") whatever the
\* text of the diagnosis is
diagnose_error_outcomes ==
    {Outcome("value", t, b, None) : t \in DiagnosisTexts, b \in BOOLEAN}
        \cup {Outcome("raise", NoneText, FALSE, e) : e \in RetryExceptions}

\* a function that ends without a return statement returns None
ReturnsNone == Outcome("value", NoneText, FALSE, None)

InitRetry ==
    /\ retry_attempts \in (0 - NegRetries)..MaxRetries
    /\ retry_attempt = 1
    /\ retry_pc = "loop"
    /\ retry_calls = 0
    /\ retry_last = NoOutcome
    /\ retry_result = NoOutcome
    /\ cache_file = << >>
    /\ cache_pc = "idle"
    /\ cache_call = << >>
    /\ cache_depth = 0
    /\ cache_result = NotCalled
    /\ cache_computed = << >>
    /\ cache_completed = << >>
    /\ LoopIdle
    /\ RunIdle
    /\ ExtractIdle
    /\ SessionIdle
    /\ ParseIdle
    /\ ReaderIdle

\* lines 9-18: one iteration of "for attempt in range(1, attempts + 1)"
RetryIteration ==
    /\ retry_pc = "loop"
    /\ retry_attempt <= retry_attempts
    /\ \E o \in diagnose_error_outcomes :
           /\ retry_calls' = retry_calls + 1
           /\ retry_last' = o
           /\ IF o.kind = "value"
              THEN /\ retry_result' = o
                   /\ retry_pc' = "returned"
                   /\ UNCHANGED retry_attempt
              ELSE IF is_exception(o.exc) /\ retry_attempt < retry_attempts
              THEN /\ retry_attempt' = retry_attempt + 1
                   /\ UNCHANGED <<retry_result, retry_pc>>
              ELSE /\ retry_result' = o
                   /\ retry_pc' = "raised"
                   /\ UNCHANGED retry_attempt
    /\ UNCHANGED <<retry_attempts, cacheVars>>
    /\ UNCHANGED <<runVars, loopVars, histVars, extractVars, sessionVars, parseVars,
                   readerVars>>

\* the range is empty or used up: wrapper_retry ends without a return
RetryLoopEnd ==
    /\ retry_pc = "loop"
    /\ retry_attempt > retry_attempts
    /\ retry_result' = ReturnsNone
    /\ retry_pc' = "returned"
    /\ UNCHANGED <<retry_attempts, retry_attempt, retry_calls, retry_last, cacheVars>>
    /\ UNCHANGED <<runVars, loopVars, histVars, extractVars, sessionVars, parseVars,
                   readerVars>>

NextRetry ==
    \/ RetryIteration
    \/ RetryLoopEnd

SpecRetry == InitRetry /\ [][NextRetry]_vars


(***************************************************************************)
(* SpecCache: calls of order_paths behind the wrapper of                   *)
(* cached("paths.pkl"), and purge_cache, for two repositories.             *)
(***************************************************************************)
Repos == {"/a", "/b"}

\* the keyword argument readme_contents of a call
ReadmeArgs == {"", "readme"}

\* results the wrapped function can compute
OrderedPaths == {<<Txt("a.py"), Txt("b.py")>>, <<Txt("b.py"), Txt("a.py")>>}

\* a wrapper that never finds a stored result
cache_exists_never(f) == FALSE

\* Cache.exists()
cache_exists(f) == f # Absent

InitCache ==
    /\ cache_file \in [Repos -> {Absent} \cup OrderedPaths]
    /\ cache_pc = "ready"
    /\ cache_call = [repo |-> "/a", readme |-> ""]
    /\ cache_depth = 0
    /\ cache_result = NotCalled
    /\ cache_computed = [r \in Repos |-> 0]
    /\ cache_completed = [r \in Repos |-> 0]
    /\ retry_attempts = 0
    /\ retry_attempt = 0
    /\ retry_pc = "idle"
    /\ retry_calls = 0
    /\ retry_last = NoOutcome
    /\ retry_result = NoOutcome
    /\ LoopIdle
    /\ RunIdle
    /\ ExtractIdle
    /\ SessionIdle
    /\ ParseIdle
    /\ ReaderIdle

\* cache.py lines 27-30: a call of the wrapper; a stored result is returned,
\* otherwise the wrapped function is entered
CachedCall ==
    /\ cache_pc = "ready"
    /\ \E r \in Repos, a \in ReadmeArgs :
           /\ cache_call' = [repo |-> r, readme |-> a]
           /\ IF cache_exists(cache_file[r])
              THEN /\ cache_result' = cache_file[r]
                   /\ UNCHANGED <<cache_pc, cache_depth>>
              ELSE /\ cache_pc' = "body"
                   /\ cache_depth' = 1
                   /\ cache_result' = NotCalled
    /\ UNCHANGED <<cache_file, cache_computed, cache_completed, retryVars>>
    /\ UNCHANGED <<runVars, loopVars, histVars, extractVars, sessionVars, parseVars,
                   readerVars>>

\* one frame of order_paths (autocog.py lines 196-215) and what follows it.
\* A reply that orders the paths ends the frame with a result: the wrapper of
\* this frame stores it (cache.py lines 31-33), and so does the wrapper of
\* each frame that called it (line 213 returns what the inner call returned),
\* each storing the same result: cache_depth frames return.  Another reply
\* makes the frame call order_paths, that is the wrapper, again, or raise in
\* the frame with attempt = 5; an exception of the request leaves every frame
\* and nothing is stored.
OrderPathsFrame ==
    /\ cache_pc = "body"
    /\ \/ \E v \in OrderedPaths :
              /\ cache_file' = [cache_file EXCEPT ![cache_call.repo] = v]
              /\ cache_computed' = [cache_computed EXCEPT ![cache_call.repo] = @ + 1]
              /\ cache_completed' = [cache_completed EXCEPT
                                         ![cache_call.repo] = @ + cache_depth]
              /\ cache_result' = v
              /\ cache_pc' = "ready"
              /\ cache_depth' = 0
       \/ /\ IF is_last_inner_attempt(cache_depth - 1)
             THEN /\ cache_result' = Raised(OrderPathsFailed)
                  /\ cache_pc' = "ready"
                  /\ cache_depth' = 0
             ELSE /\ IF cache_exists(cache_file[cache_call.repo])
                     THEN /\ cache_result' = cache_file[cache_call.repo]
                          /\ cache_pc' = "ready"
                          /\ cache_depth' = 0
                     ELSE /\ cache_depth' = cache_depth + 1
                          /\ UNCHANGED <<cache_result, cache_pc>>
          /\ UNCHANGED <<cache_file, cache_computed, cache_completed>>
       \/ /\ cache_result' = Raised(ServiceError)
          /\ cache_pc' = "ready"
          /\ cache_depth' = 0
          /\ UNCHANGED <<cache_file, cache_computed, cache_completed>>
    /\ UNCHANGED <<cache_call, retryVars>>
    /\ UNCHANGED <<runVars, loopVars, histVars, extractVars, sessionVars, parseVars,
                   readerVars>>

\* purge_cache(repo_path) between two calls
PurgeCache ==
    /\ cache_pc = "ready"
    /\ \E r \in Repos :
           /\ cache_file' = [cache_file EXCEPT ![r] = purge_cache(@)]
           /\ cache_computed' = [cache_computed EXCEPT ![r] = 0]
           /\ cache_completed' = [cache_completed EXCEPT ![r] = 0]
    /\ UNCHANGED <<cache_pc, cache_call, cache_depth, cache_result, retryVars>>
    /\ UNCHANGED <<runVars, loopVars, histVars, extractVars, sessionVars, parseVars,
                   readerVars>>

NextCache ==
    \/ CachedCall
    \/ OrderPathsFrame
    \/ PurgeCache

SpecCache == InitCache /\ [][NextCache]_vars


(***************************************************************************)
(* Properties of run_cog_predict (checked under SpecRun).                  *)
(***************************************************************************)
\* the runner has read a line that contains "Model setup failed"
SawSentinel == \E i \in 1..nread : script[i].sentinel

\* the child ended on its own with exit code 0
ExitedZero == child = "exited" /\ exitcode = 0

\* C1: run_cog_predict returns success exactly when the child's exit code is
\* zero and no line of the accumulated stderr holds the traceback marker; exit
\* code 0 with the marker present gives failure.
C1_SuccessIffExitZeroAndNoTraceback ==
    rpc = "returned" =>
        (result <=> (ExitedZero /\ \A i \in 1..nread : ~script[i].traceback))

C1_Witness ==
    /\ rpc = "returned"
    /\ ExitedZero
    /\ \E i \in 1..nread : script[i].traceback
    /\ result = FALSE

\* C2: whenever the runner has read a line that contains "Model setup failed",
\* the run is reported as failed, whatever the interleaving of the child and
\* the reading loop.
C2_SentinelMeansFailure ==
    (rpc = "returned" /\ SawSentinel) => result = FALSE

\* C3: once the runner has read a line that contains "Model setup failed" it
\* reads no further line, the captured output ends with that line, and by the
\* time it waits the child has been killed or has already ended, so the wait
\* does not last until a running child finishes on its own.
C3_SentinelStopsTheRun ==
    SawSentinel =>
        /\ rpc \in {"kill", "wait", "returned"}
        /\ \A i \in 1..(nread - 1) : ~script[i].sentinel
        /\ stderr # << >> /\ HasSentinel(stderr[Len(stderr)])
        /\ Len(stderr) = nread
        /\ rpc \in {"wait", "returned"} => child # "running"

C3_Witness ==
    /\ rpc = "returned"
    /\ SawSentinel
    /\ child = "killed"
    /\ nread < Len(script)
    /\ returncode = 0 - SIGKILL

C5_ExhaustedAtLastAttempt ==
    /\ [][(pc = "run" /\ attempt = attempts - 1 /\ n_runs' = n_runs + 1
              /\ n_success' = n_success)
          => /\ pc' = "ExhaustedAttempts"
             /\ exit_status' = 1
             /\ n_diagnose' = n_diagnose
             /\ n_branches' = n_branches
             /\ n_repairs' = n_repairs
             /\ n_requests' = n_requests
             /\ files' = files /\ disk' = disk /\ predict_command' = predict_command]_vars
    /\ [][pc = "ExhaustedAttempts" => UNCHANGED vars]_vars
    /\ [](pc = "ExhaustedAttempts" =>
             /\ exit_status = 1
             /\ n_runs = attempts
             /\ n_diagnose = n_runs - 1
             /\ n_repairs = n_runs - 1)

C5_Witness ==
    /\ pc = "ExhaustedAttempts"
    /\ n_runs = 3
    /\ n_diagnose = 2
    /\ n_repairs = 2

\* C6: for every value of option -n, the process ends with status 0 only if a
\* run of the predict command was judged successful, and with status 1 when
\* none was.
C6_ExitStatusTellsSuccess ==
    pc \in TerminalStates =>
        /\ exit_status = 0 => n_success > 0
        /\ n_success = 0 => exit_status = 1

\* C7: the repair of a predict.py fault leaves the cog.yaml text, in memory
\* and in the repository directory, and the predict command as they were.
C7_PredictorRepairFrame ==
    [][pc = "fix_predict_py" =>
          /\ files'[COG_YAML] = files[COG_YAML]
          /\ disk'[repo_path][COG_YAML] = disk[repo_path][COG_YAML]
          /\ predict_command' = predict_command]_vars

\* C8: the repair of a cog.yaml fault leaves the predict.py text, in memory
\* and in the repository directory, and the predict command as they were.
C8_DescriptorRepairFrame ==
    [][pc = "fix_cog_yaml" =>
          /\ files'[PREDICT_PY] = files[PREDICT_PY]
          /\ disk'[repo_path][PREDICT_PY] = disk[repo_path][PREDICT_PY]
          /\ predict_command' = predict_command]_vars

\* C9: the repair of a command fault generates the new command from the
\* predict.py text the loop holds at that moment, and leaves both artifacts
\* as they were, in memory and on disk.
C9_CommandRepairFrame ==
    [][pc = "regen_cmd" =>
          /\ files' = files
          /\ disk' = disk
          /\ pc' = "run" => cmd_source' = files[PREDICT_PY]]_vars

C9_Witness ==
    /\ pc = "run"
    /\ error_source = ERROR_COG_PREDICT
    /\ n_repairs = 2
    /\ files[PREDICT_PY] = <<Txt("p2")>>
    /\ cmd_source = <<Txt("p2")>>

\* C10: the value the dispatch tests is always one of the three labels, and
\* every failed attempt that was not the last one has entered exactly one
\* repair branch by the time the command is run again.
C10_DispatchGetsRecognizedLabel ==
    /\ pc = "dispatch" => error_source \in RecognizedLabels
    /\ pc \in {"run", "Succeeded", "ExhaustedAttempts", "Returned"} =>
           (n_branches = attempt /\ n_repairs = attempt)
    /\ pc \in {"fix_predict_py", "fix_cog_yaml", "regen_cmd"} => n_branches = attempt + 1

C10_Witness ==
    /\ pc = "dispatch"
    /\ n_requests = 3
    /\ attempt = 1

(***************************************************************************)
(* Properties of the retrying helpers (checked under Spec).                *)
(***************************************************************************)
\* C11: diagnose_error issues at most five classification requests: once five
\* requests have been answered and none of the answers was accepted, it
\* raises the classification failure without issuing a sixth request.
C11_NoSixthClassificationRequest ==
    [][(pc = "diagnose" /\ n_requests = 5) =>
          (pc' = "FatalError" /\ n_requests' = n_requests)]_vars

\* C12: when the last permitted call of diagnose_error does not give a
\* recognized label, the command ends in FatalError with exit status 1; that
\* step runs no command and makes no repair, and nothing happens afterwards.
C12_ClassificationExhaustionIsFatal ==
    /\ [][(pc = "diagnose" /\ inner = LastInnerAttempt /\ pc' # "dispatch") =>
             /\ pc' = "FatalError"
             /\ exit_status' = 1
             /\ exc' \in {DiagnosisFailed, "MaxTokensExceeded", ServiceError}
             /\ UNCHANGED <<n_runs, n_branches, n_repairs, files, disk,
                            predict_command>>]_vars
    /\ [][pc = "FatalError" => UNCHANGED vars]_vars
    /\ [](pc = "FatalError" => exit_status = 1)

C12_Witness ==
    /\ pc = "FatalError"
    /\ exc = DiagnosisFailed
    /\ exit_status = 1
    /\ n_runs = 2
    /\ n_diagnose = 2
    /\ n_repairs = 1

\* C13: one invocation of fix_predict_py or fix_cog_yaml issues at most five
\* generation requests: once five requests have been answered and none gave a
\* usable artifact, it raises without issuing another request.
C13_NoSixthRepairRequest ==
    [][(pc \in {"fix_predict_py", "fix_cog_yaml"} /\ n_requests = 5) =>
          (pc' = "FatalError" /\ n_requests' = n_requests)]_vars

\* C14: generate_files issues the first request and at most three more, and
\* when it gives up after incomplete replies the exception is the dedicated
\* "Failed to generate a predict.py file" error and no other.
C14_GenerationFailureIsDedicated ==
    [][pc = "generate" =>
          /\ n_requests' <= 4
          /\ (pc' = "FatalError" /\ n_requests' = n_requests) =>
                 exc' = GenerationFailed]_vars

\* generate_files has returned to autocog(): write_files follows, which ends
\* normally or raises TypeError for an artifact that is None
GenerateFilesReturned ==
    /\ pc = "generate"
    /\ pc' = "gen_cmd" \/ (pc' = "FatalError" /\ exc' = "TypeError")

\* C15: whenever generate_files returns, neither returned artifact is None,
\* also when an earlier reply was incomplete and a later one was complete.
C15_GeneratedFilesAreBothPresent ==
    [][GenerateFilesReturned => \A f \in FileNames : files'[f] # NoneText]_vars

(***************************************************************************)
(* Properties of the extraction (checked under SpecExtract).               *)
(***************************************************************************)
\* the text holds the start marker of file f and, after it, its end marker
HasPair(text, f) ==
    \E i, j \in 1..Len(text) :
        i < j /\ text[i] = file_start(f) /\ text[j] = file_end(f)

\* the text between the first start marker of f and the next end marker of f
Between(text, f) ==
    LET s == FirstAfter(text, {file_start(f)}, 0)
        e == FirstAfter(text, {file_end(f)}, s)
    IN  SubSeq(text, s + 1, e - 1)

\* position of the line break that ends the first line of t, when that line
\* is "```" and an optional tag of lowercase letters; 0 otherwise
FenceLineEnd(t) ==
    IF t # << >> /\ t[1] = Ticks /\ \E i \in 2..Len(t) : t[i] # Lower
    THEN LET k == CHOOSE i \in 2..Len(t) :
                      t[i] # Lower /\ \A j \in 2..(i - 1) : t[j] = Lower
         IN  IF t[k] = NL THEN k ELSE 0
    ELSE 0

\* t is one fenced code block: a fence line, the block, and a last line "```"
IsFenced(t) ==
    /\ FenceLineEnd(t) # 0
    /\ t[Len(t)] = Ticks
    /\ FenceLineEnd(t) = Len(t) - 1 \/ (FenceLineEnd(t) < Len(t) - 1 /\ t[Len(t) - 1] = NL)

\* the block inside the fence
InFence(t) == SubSeq(t, FenceLineEnd(t) + 1, Len(t) - 2)

\* the content of a trimmed text: the trimmed block when the text is one
\* fenced code block, the text itself otherwise
Unwrapped(t) == IF IsFenced(t) THEN Strip(InFence(t)) ELSE t

\* texts for which "a single wrapping fenced code block" has one reading only:
\* no marker line with another character for the dot, and between the
\* markers either no fence at all or one fenced block with no fence inside
PlainOrWrapped(text, f) ==
    LET t == Strip(Between(text, f))
    IN  /\ \A i \in 1..Len(text) : text[i] \notin {near_start(f), near_end(f)}
        /\ \/ ~Contains(t, Ticks)
           \/ IsFenced(t) /\ ~Contains(InFence(t), Ticks)

\* C16: for a text that holds the start marker of the file and an end marker
\* after it, file_from_gpt_response returns the text between the first start
\* marker and the next end marker, trimmed, without the fenced code block
\* that wraps it if there is one.
C16_ExtractionRecoversContent ==
    (xpc # "autocog" /\ HasPair(gpt_response, wanted)
         /\ PlainOrWrapped(gpt_response, wanted)) =>
        extracted = Unwrapped(Strip(Between(gpt_response, wanted)))

\* C17: when the text does not hold the start marker of the file with its end
\* marker after it, neither extraction yields content: file_from_gpt_response
\* returns None and the extraction of the agents raises ValueError.
C17_ExtractionFailsWithoutPair ==
    (xpc = "done" /\ ~HasPair(gpt_response, wanted)) =>
        /\ extracted = NoneText
        /\ agent_extracted = FailedToGenerate(wanted)

(***************************************************************************)
(* Properties of the AI object (checked under SpecRoundTrip and            *)
(* SpecSession).                                                           *)
(***************************************************************************)
\* C18: after save_chat_history and then load_chat_history the history has as
\* many turns as the one that was saved, in the same order and with the same
\* roles in lower case, whatever the contents of the turns.
C18_RoundTripKeepsTurns ==
    apc = "loaded" =>
        /\ Len(history) = Len(written_history)
        /\ \A i \in 1..Len(history) : history[i].role = lower(written_history[i].role)

\* C19: a transcript file that exists begins with the line "## SYSTEM:" and
\* holds, after the system section, the sections of the turns in the order of
\* the history that was written; once the object has turns of its own, that
\* history is the one in memory, and the history changes only by growing at
\* its end or by being emptied.
C19_TranscriptStartsWithSystem ==
    /\ [](transcript # Absent =>
             /\ Len(transcript) > 0
             /\ transcript[1] = Header("SYSTEM")
             /\ \E n \in 1..Len(transcript) :
                    /\ SubSeq(transcript, 1, n) = <<Header("SYSTEM"), Blank>> \o system_prompt
                                                      \o <<Blank>>
                    /\ SubSeq(transcript, n + 1, Len(transcript))
                           = turn_sections(written_history)
             /\ history # << >> => written_history = history)
    /\ [][\/ history' = << >>
          \/ /\ Len(history') >= Len(history)
             /\ SubSeq(history', 1, Len(history)) = history]_vars

C19_Witness ==
    /\ transcript # Absent
    /\ Len(history) = 4
    /\ history[1].content = <<Blank>>
    /\ history[3].content = <<TextLine("a"), Header("Note")>>
    /\ n_api = 3

\* C20: a call that returns a reply has added the outgoing turns and then the
\* assistant turn to the history, and has written the file, which then holds
\* the system section followed by the sections of the whole history.
C20_CallRecordsBothTurns ==
    [][(n_api' = n_api + 1 /\ apc' = "idle" /\ ~IsRaised(response')) =>
          /\ history' = (history \o messages') \o <<Turn("assistant", response')>>
          /\ transcript' = system_section(system_prompt) \o turn_sections(history')]_vars

C20_Witness ==
    /\ apc = "idle"
    /\ response = <<Blank>>
    /\ Len(messages) = 2
    /\ Len(history) = 3
    /\ history[3] = Turn("assistant", <<Blank>>)
    /\ transcript = save_chat_history(system_prompt, history)
    /\ n_api = 2


(***************************************************************************)
(* The choice between continuing and generating, and the loop's order      *)
(***************************************************************************)
\* something of an earlier execution is in the repository, the stored paths
\* or an artifact, and an artifact is missing
SemiInitialized(d, c, rp) ==
    /\ c # Absent \/ \E f \in FileNames : Exists(d, rp, f)
    /\ ~is_initialized(d, rp)

\* C24: without the re-initialize flag, a repository that holds something of
\* an earlier execution but not both artifacts makes the command fail at
\* once: the step that finds it ends in a fatal error and leaves the disk as
\* it was.
C24_SemiInitializedIsFatal ==
    [][(pc = "setup" /\ ~initialize /\ SemiInitialized(disk, cache, repo_path))
          => (pc' = "FatalError" /\ disk' = disk)]_vars

C26_InitializeRemovesEverything ==
    /\ [][(pc = "setup" /\ initialize)
            => /\ \A f \in FileNames : ~Exists(disk', repo_path, f)
               /\ cache' = Absent
               /\ initialize_project(disk', repo_path) = disk'
               /\ purge_cache(cache') = cache'
               /\ pc' = "order_paths"]_vars
    /\ [][(pc = "order_paths" /\ initialize /\ pc' = "generate")
            => (cache = Absent /\ cache' # Absent)]_vars
    /\ []((initialize /\ pc = "generate")
            => \A f \in FileNames : ~Exists(disk, repo_path, f))

\* the paths have been ordered again after a re-initialization
C26_Witness ==
    /\ initialize
    /\ pc = "generate"
    /\ cache # Absent
    /\ \E f \in FileNames : Exists(disk, "cwd", f)
    /\ \A f \in FileNames : ~Exists(disk, repo_path, f)

RepairSteps == {"fix_predict_py", "fix_cog_yaml", "regen_cmd"}

\* C27: a run is preceded by as many classifications and as many repairs as
\* there were runs before it; a repair step runs no command; and an
\* execution that succeeds has made one classification and one repair fewer
\* than runs.
C27_RunClassifyRepairAlternate ==
    /\ [][n_runs' # n_runs
            => (n_runs' = n_runs + 1 /\ n_diagnose = n_runs /\ n_repairs = n_runs)]_vars
    /\ [][(pc \in RepairSteps \cup {"diagnose", "dispatch"}) => (n_runs' = n_runs)]_vars
    /\ [][n_repairs' # n_repairs
            => (pc \in RepairSteps /\ pc' = "run" /\ n_repairs' = n_repairs + 1
                /\ n_diagnose = n_repairs + 1)]_vars
    /\ [](pc = "Succeeded"
            => (n_diagnose = n_runs - 1 /\ n_repairs = n_runs - 1))

\* a success on the second run, after one repair
C27_Witness ==
    pc = "Succeeded" /\ n_runs = 2 /\ n_diagnose = 1 /\ n_repairs = 1


(***************************************************************************)
(* The transcript file and the requests of the AI object                   *)
(***************************************************************************)
\* C21: a load_chat_history that runs beside a save_chat_history of another
\* object reads either the whole transcript the file held before the save or
\* the whole transcript the save writes, never less.
C21_ReaderSeesWholeTranscript ==
    [][(reader_pc = "ready" /\ reader_pc' = "loaded")
          => seen' \in {save_chat_history(system_prompt, written_history),
                        save_chat_history(system_prompt, history)}]_vars

\* C22: clear_history leaves an empty history and no transcript file, and
\* raises nothing, whether or not the file was there; applied to its own
\* result it gives that result again.
C22_ClearHistoryIsIdempotent ==
    /\ [][ClearHistory
            => (history' = << >> /\ transcript' = Absent /\ raised' = None)]_vars
    /\ [](LET once == clear_history(history, transcript)
              twice == clear_history(once.history, once.transcript)
          IN  /\ once.history = << >>
              /\ once.transcript = Absent
              /\ once.raised = None
              /\ twice = once)

\* the transcript that a call wrote has been removed
C22_Witness ==
    /\ n_api > 0
    /\ response \in CallContents
    /\ history = << >>
    /\ transcript = Absent
    /\ raised = None

\* the first line of a transcript that is not empty is something else than
\* the SYSTEM header: text before any header, or the header of another section
StartsOtherThanSystem(lines) ==
    \E i \in 1..Len(lines) :
        /\ strip_line(lines[i]) \notin {Blank, Header("SYSTEM")}
        /\ \A j \in 1..(i - 1) : strip_line(lines[j]) = Blank

\* C23: load_chat_history of a transcript that does not begin with the
\* SYSTEM section (text before any header, or another section first) ends
\* with a corrupt-session error.
C23_CorruptTranscriptIsRejected ==
    (apc = "loaded" /\ transcript # Absent /\ StartsOtherThanSystem(transcript))
        => raised = "CorruptSessionError"

\* C29: a request that the provider refuses for the rate limit does not end
\* with that exception at the caller of call().
C29_RateLimitNeverEscapes ==
    raised # "RateLimitError"

(***************************************************************************)
(* The excerpt of the captured output                                      *)
(***************************************************************************)
\* what follows the first "Running prediction..." of a text, the whole text
\* when it holds none
AfterFirstMarker(out) ==
    LET i == Find(out, RunningPrediction, 1)
    IN  IF i = 0 THEN out ELSE SubSeq(out, i + Len(RunningPrediction), Len(out))

\* C28: parse_cog_predict_error returns the last max_length characters of
\* what follows the first marker, of the whole output when there is no
\* marker, and never more than max_length characters.
C28_ExcerptIsTailAfterMarker ==
    ppc \in {"parsed", "done"} =>
        /\ excerpt = last_chars(AfterFirstMarker(raw_output), max_length)
        /\ Len(excerpt) <= max_length


(***************************************************************************)
(* The runner of the agents and the captured output                        *)
(***************************************************************************)
\* C31: CogPredictAgent.run_cog_predict reports success whenever the child
\* has ended with exit code 0 and no line it read holds the traceback marker.
C31_AgentSuccessOnExitZero ==
    (rpc = "agent_returned" /\ ExitedZero /\ ~HasTraceback(stderr))
        => result = TRUE

\* C34: what run_cog_predict returns as the captured output is, line for
\* line and in order, what it read from the child and wrote to the log sink,
\* whether the run succeeded or failed.
C34_CapturedOutputIsWhatWasEchoed ==
    /\ stderr = echoed
    /\ stderr = SubSeq(script, 1, nread)
    /\ rpc = "returned" => Len(stderr) = nread

\* a failed run that was stopped at the sentinel, with two lines captured
C34_Witness ==
    /\ rpc = "returned"
    /\ result = FALSE
    /\ Len(stderr) = 2
    /\ HasSentinel(stderr[2])
    /\ Len(script) = 3


(***************************************************************************)
(* The retry wrapper and the cache                                         *)
(***************************************************************************)
\* C32: behind retry(5), diagnose_error returns to its caller only a
\* diagnosis that is one of the recognized labels.
C32_AgentDiagnosisIsRecognized ==
    (retry_attempts = DiagnoseRetries /\ retry_pc = "returned")
        => retry_result.label \in RecognizedLabels

\* C35: the wrapper of retry(n) calls the function at most n times (never
\* for n <= 0); what it returns is the value of the last call it made, which
\* did not raise; what it raises is the exception of the last call it made,
\* and when that exception is one the wrapper catches, that call was the n-th.
C35_RetryReturnsOrRaisesWhatTheFunctionDid ==
    /\ retry_calls <= (IF retry_attempts > 0 THEN retry_attempts ELSE 0)
    /\ retry_pc = "returned"
         => (retry_calls > 0 /\ retry_last.kind = "value" /\ retry_result = retry_last)
    /\ retry_pc = "raised"
         => /\ retry_calls > 0
            /\ retry_last.kind = "raise"
            /\ retry_result = retry_last
            /\ is_exception(retry_last.exc) => retry_calls = retry_attempts

\* C39 as stated: between two purges the body of the wrapped function
\* returns a result at most once for a repository.
C39_BodyCompletesAtMostOnce ==
    \A r \in Repos : cache_completed[r] <= 1

\* C39, amended: between two purges the wrapped function computes at most one
\* result for a repository, and a result it computed is stored; a call that
\* finds a stored result returns it, whatever its other argument, and
\* computes and stores nothing; a call that ends with an exception stores
\* nothing; a call that finds nothing stored, as after a purge, enters the
\* function.
C39_CachedComputesOnce ==
    /\ [](\A r \in Repos :
             /\ cache_computed[r] <= 1
             /\ cache_computed[r] = 1 => cache_file[r] # Absent)
    /\ [][(CachedCall /\ cache_file[cache_call'.repo] # Absent)
            => /\ cache_result' = cache_file[cache_call'.repo]
               /\ cache_pc' = "ready"
               /\ UNCHANGED <<cache_file, cache_computed, cache_completed>>]_vars
    /\ [][(CachedCall /\ cache_file[cache_call'.repo] = Absent)
            => (cache_pc' = "body")]_vars
    /\ [][(cache_pc = "body" /\ cache_pc' = "ready")
            => IF IsRaised(cache_result')
               THEN UNCHANGED <<cache_file, cache_computed, cache_completed>>
               ELSE /\ cache_file' = [cache_file EXCEPT ![cache_call.repo] = cache_result']
                    /\ cache_computed[cache_call.repo] = 0
                    /\ cache_computed'[cache_call.repo] = 1]_vars
    /\ [][PurgeCache
            => \E r \in Repos :
                   /\ cache_file'[r] = Absent
                   /\ cache_computed'[r] = 0]_vars

\* a call with another argument got the result that an earlier execution had
\* stored for /a, and a call for /b computed one in its second frame
C39_Witness ==
    /\ cache_pc = "ready"
    /\ cache_computed["/a"] = 0
    /\ cache_file["/a"] # Absent
    /\ cache_call = [repo |-> "/a", readme |-> "readme"]
    /\ cache_result = cache_file["/a"]
    /\ cache_computed["/b"] = 1
    /\ cache_completed["/b"] = 2

C37_DiskEqualsMemoryAtRun ==
    (pc = "run" /\ loop_continues(attempt, attempts))
        => \A f \in FileNames : disk[repo_path][f] = files[f]

\* C38: a step of the initial generation that ends the command with an error,
\* in a project that held neither artifact, leaves every file as it was.
C38_FailedGenerationLeavesDisk ==
    [][(/\ pc \in {"order_paths", "generate"}
        /\ pc' = "FatalError"
        /\ \A f \in FileNames : disk[repo_path][f] = Absent)
          => (disk' = disk)]_vars

\* the command under weak fairness: a step that can be taken is taken
SpecLive == Init /\ [][Next]_vars /\ WF_vars(Next)

\* C33: once the command has come to its loop, it ends in Succeeded,
\* ExhaustedAttempts or FatalError.
C33_LoopTerminates ==
    (pc = "run") ~> (pc \in {"Succeeded", "ExhaustedAttempts", "FatalError"})

\* the same for a loop that has a run to make: it ends in one of the three
\* states and stays there
LoopWithARunTerminates ==
    /\ (pc = "run" /\ loop_continues(attempt, attempts))
           ~> (pc \in {"Succeeded", "ExhaustedAttempts", "FatalError"})
    /\ [][(pc \in {"Succeeded", "ExhaustedAttempts", "FatalError"}) => (pc' = pc)]_vars
=============================================================================
